---- MODULE Spec2Model ----
(***************************************************************************)
(* A model of the two services of the repository:                          *)
(*   - the Todo service (services/todo/app): the table of tasks, the Redis *)
(*     item cache with its tag set, the HTTP handlers, the database        *)
(*     session of a request, and two requests whose Redis commands and     *)
(*     transactions interleave;                                            *)
(*   - the shared edge middleware's per-IP rate limiter;                   *)
(*   - the AI service (services/ai/app): the LLM-backed agents, their      *)
(*     retry wrapper and concurrency limiter, and the workflow's           *)
(*     aggregation step.                                                   *)
(* Python values are modelled as follows.  A str is a sequence of          *)
(* one-character strings.  A value that may be None is wrapped: None is    *)
(* <<>> and a present value x is <<x>>.  A request body is a record whose  *)
(* DOMAIN is the set of fields the client supplied.                        *)
(***************************************************************************)
EXTENDS Integers, Sequences, FiniteSets, Bags, TLC

VARIABLES
    todos,          \* the table "todos": id -> None or <<row>>
    nextId,         \* the next fresh primary key (uuid4 never repeats)
    redis_cache,    \* Redis keys "todo:{id}": id -> None or <<snapshot>>
    redis_tags,     \* the Redis set "todos:tags:list", as a set of ids
    resp,           \* the last Todo-service request and its response
    nreq,           \* number of Todo-service requests handled so far
    clock,          \* Todo service: the time of the database and of Redis, in seconds
    expire_at,      \* Redis: id -> the time the key "todo:{id}" expires at (0: no expiry set)
    created_at,     \* the column created_at: id -> time (0: no row)
    updated_at,     \* the column updated_at: id -> time (0: no row)
    store_read,     \* whether the last GET /todos/{id} queried the table
    sessions,       \* database sessions: request -> the state of its get_db generator
    checked_out,    \* database sessions: the connections checked out of the engine's pool
    running,        \* interleaved requests: the position and the locals of a read and of a mutation
    service,        \* rate limiter: the service whose middleware is modelled
    now,            \* rate limiter: time.time(), in seconds
    request_counts, \* rate limiter: client ip -> list of recorded request times
    admitted_log,   \* rate limiter: client ip -> time -> number of requests let through
    rl,             \* rate limiter: the middleware's decision on the last request
    _concurrent_requests, \* agents: the limiter's counter of taken slots
    coroutines,     \* agents: the bag of agent calls under way
    ret,            \* agents: what the last finished agent call gave its caller
    wf,             \* pipeline: the workflow state (TodoState) of the current run
    wf_next,        \* pipeline: the nodes that run next
    wf_trace,       \* pipeline: the nodes run so far for the current request
    ai_resp,        \* pipeline: the last POST /ai/parse request and its response
    stats_resp,     \* the last answer of GET /todos/stats/summary
    suggest_resp,   \* the last request to a single-suggestion route of the AI service
    list_db,        \* listing: the rows of the todos table, in order of creation
    list_resp,      \* listing: the last GET /todos request and its response
    batch_resp,     \* batch analysis: the last request and its response
    sanitized       \* sanitizer: the last text given to sanitize_string and its result

timeVars == <<clock, expire_at, created_at, updated_at, store_read>>
reqVars == <<sessions, checked_out, running>>
todoVars == <<todos, nextId, redis_cache, redis_tags, resp, nreq, timeVars, reqVars>>
rateVars == <<service, now, request_counts, admitted_log, rl>>
agentVars == <<_concurrent_requests, coroutines, ret>>
pipeVars == <<wf, wf_next, wf_trace, ai_resp>>
apiVars == <<list_db, list_resp, batch_resp, sanitized, suggest_resp, stats_resp>>

-----------------------------------------------------------------------------
(* Bounds of the model *)

MaxTodos == 2
MaxRequests == 3
MaxTime == 60
MaxSessions == 3
MaxCalls == 11
MaxOtherRequests == 1
MaxBatchCalls == 2

-----------------------------------------------------------------------------
(* Optional values *)

None == <<>>
Some(x) == <<x>>
Val(o) == o[1]

\* the element of a one-element set; { e(x) : x \in {v} } names the value v
\* as x inside e
The(S) == CHOOSE x \in S : TRUE

-----------------------------------------------------------------------------
(* Strings, html.escape and the regular expressions of sanitize_string *)

WordChars == {"a", "b", "c", "d", "i", "j", "l", "m", "n", "o", "p", "q", "r",
              "s", "t", "u", "v", "x", "g", "e", "f", "N", "O", "2", "7", "_"}
SpaceChars == {" "}

\* re.IGNORECASE: the model's alphabet has two upper-case letters
Lower(c) == IF c = "O" THEN "o" ELSE IF c = "N" THEN "n" ELSE c

\* html.escape(text), quote=True, one character at a time
EscapeChar(c) ==
    CASE c = "&"  -> <<"&", "a", "m", "p", ";">>
      [] c = "<"  -> <<"&", "l", "t", ";">>
      [] c = ">"  -> <<"&", "g", "t", ";">>
      [] c = "\"" -> <<"&", "q", "u", "o", "t", ";">>
      [] c = "'"  -> <<"&", "#", "x", "2", "7", ";">>
      [] OTHER    -> <<c>>

\* the two halves of s are escaped one after the other
RECURSIVE html_escape(_)
html_escape(s) ==
    IF s = <<>> THEN <<>>
    ELSE IF Len(s) = 1 THEN EscapeChar(s[1])
    ELSE The({ html_escape(SubSeq(s, 1, half)) \o html_escape(SubSeq(s, half + 1, Len(s))) :
               half \in {Len(s) \div 2} })

\* lit occurs in s at position i, ignoring case
LitAt(s, i, lit) ==
    /\ i + Len(lit) - 1 <= Len(s)
    /\ \A k \in 1..Len(lit) : Lower(s[i + k - 1]) = Lower(lit[k])

\* the least position >= i where lit occurs in s, or 0
FirstLit(s, i, lit) ==
    LET hits == {j \in i..Len(s) : LitAt(s, j, lit)}
    IN IF hits = {} THEN 0 ELSE CHOOSE j \in hits : \A k \in hits : j <= k

\* length of the maximal run of characters of class C in s from position i
RunLen(s, i, C) ==
    LET stops == {j \in i..Len(s) : s[j] \notin C}
    IN IF stops = {} THEN Len(s) - i + 1
       ELSE (CHOOSE j \in stops : \A k \in stops : j <= k) - i

\* r'<tag[^>]*>.*?</tag>' (DOTALL): length of the match at i, or 0
TagMatchLen(s, i, open, close) ==
    IF ~LitAt(s, i, open) THEN 0
    ELSE LET gt == FirstLit(s, i + Len(open), <<">">>)
         IN IF gt = 0 THEN 0
            ELSE LET cl == FirstLit(s, gt + 1, close)
                 IN IF cl = 0 THEN 0 ELSE cl + Len(close) - i

\* r'on\w+\s*=': length of the match at i, or 0
OnHandlerMatchLen(s, i) ==
    IF ~LitAt(s, i, <<"o", "n">>) THEN 0
    ELSE LET w == RunLen(s, i + 2, WordChars)
             sp == RunLen(s, i + 2 + w, SpaceChars)
             eq == i + 2 + w + sp
         IN IF w >= 1 /\ eq <= Len(s) /\ s[eq] = "=" THEN eq - i + 1 ELSE 0

ScriptOpen == <<"<", "s", "c", "r", "i", "p", "t">>
ScriptClose == <<"<", "/", "s", "c", "r", "i", "p", "t", ">">>
IframeOpen == <<"<", "i", "f", "r", "a", "m", "e">>
IframeClose == <<"<", "/", "i", "f", "r", "a", "m", "e", ">">>
JavascriptColon == <<"j", "a", "v", "a", "s", "c", "r", "i", "p", "t", ":">>

\* dangerous_patterns[p]: length of the match of pattern p at position i, or 0
dangerous_patterns(p, s, i) ==
    CASE p = 1 -> TagMatchLen(s, i, ScriptOpen, ScriptClose)
      [] p = 2 -> IF LitAt(s, i, JavascriptColon) THEN Len(JavascriptColon) ELSE 0
      [] p = 3 -> OnHandlerMatchLen(s, i)
      [] p = 4 -> TagMatchLen(s, i, IframeOpen, IframeClose)

\* re.sub(pattern p, '', s): one left-to-right pass over non-overlapping
\* matches; the text up to the leftmost match from position i is kept, the
\* match is dropped and the pass goes on after it
RECURSIVE re_sub(_, _, _)
re_sub(p, s, i) ==
    IF i > Len(s) THEN <<>>
    ELSE The({ IF hits = {} THEN SubSeq(s, i, Len(s))
               ELSE The({ SubSeq(s, i, j - 1) \o re_sub(p, s, j + dangerous_patterns(p, s, j)) :
                          j \in {CHOOSE j \in hits : \A k \in hits : j <= k} }) :
               hits \in { {j \in i..Len(s) : dangerous_patterns(p, s, j) > 0} } })

\* str.strip()
RECURSIVE lstrip(_)
lstrip(s) == IF s # <<>> /\ Head(s) \in SpaceChars THEN lstrip(Tail(s)) ELSE s
RECURSIVE rstrip(_)
rstrip(s) ==
    IF s # <<>> /\ s[Len(s)] \in SpaceChars THEN rstrip(SubSeq(s, 1, Len(s) - 1)) ELSE s
strip(s) == rstrip(lstrip(s))

\* sanitize_string(text, max_length); text is None or <<str>>
sanitize_string(text, max_length) ==
    IF text = None \/ Val(text) = <<>> THEN text
    ELSE LET n == IF Len(Val(text)) < max_length THEN Len(Val(text)) ELSE max_length
         IN The({ Some(strip(s4)) :
                  s4 \in { re_sub(4, s3, 1) :
                  s3 \in { re_sub(3, s2, 1) :
                  s2 \in { re_sub(2, s1, 1) :
                  s1 \in { re_sub(1, esc, 1) :
                  esc \in { html_escape(cut) :
                  cut \in { SubSeq(Val(text), 1, n) } } } } } } })

-----------------------------------------------------------------------------
(* Todo service: schemas.py *)

TodoStatus == {"TODO", "DOING", "DONE"}

\* Field(..., min_length=1, max_length=255) and the other Field constraints
TitleMaxLength == 255
DescriptionMaxLength == 2000
CategoryMaxLength == 50
PriorityMin == 1
PriorityMax == 5
PriorityDefault == 3

\* the value of field f in body b, or dflt when the client did not send it
Get(b, f, dflt) == IF f \in DOMAIN b THEN b[f] ELSE dflt

\* TodoBase without the bounds ge=1, le=5 of priority
TodoBase_AnyPriority(b) ==
    /\ "title" \in DOMAIN b /\ b.title # None
    /\ Len(Val(b.title)) >= 1 /\ Len(Val(b.title)) <= TitleMaxLength
    /\ "priority" \in DOMAIN b => b.priority # None
    /\ ("category" \in DOMAIN b /\ b.category # None) =>
          Len(Val(b.category)) <= CategoryMaxLength
    /\ ("estimated_time" \in DOMAIN b /\ b.estimated_time # None) =>
          Val(b.estimated_time) >= 0

\* pydantic validation of a request body against TodoCreate (TodoBase)
TodoBase(b) ==
    /\ "title" \in DOMAIN b /\ b.title # None
    /\ Len(Val(b.title)) >= 1 /\ Len(Val(b.title)) <= TitleMaxLength
    /\ "priority" \in DOMAIN b =>
          /\ b.priority # None
          /\ Val(b.priority) >= PriorityMin /\ Val(b.priority) <= PriorityMax
    /\ ("category" \in DOMAIN b /\ b.category # None) =>
          Len(Val(b.category)) <= CategoryMaxLength
    /\ ("estimated_time" \in DOMAIN b /\ b.estimated_time # None) =>
          Val(b.estimated_time) >= 0

\* a TodoCreate with a field ai_metadata
TodoCreate_WithMetadata(b) ==
    [title |-> b.title,
     description |-> Get(b, "description", None),
     priority |-> Get(b, "priority", Some(PriorityDefault)),
     category |-> Get(b, "category", None),
     estimated_time |-> Get(b, "estimated_time", None),
     ai_metadata |-> Get(b, "ai_metadata", None)]

\* the TodoCreate object pydantic builds from a valid body: defaults filled
\* in, and keys of the body that are no field of the schema left out
TodoCreate(b) ==
    [title |-> b.title,
     description |-> Get(b, "description", None),
     priority |-> Get(b, "priority", Some(PriorityDefault)),
     category |-> Get(b, "category", None),
     estimated_time |-> Get(b, "estimated_time", None)]

\* pydantic validation of a request body against TodoUpdate: every field optional
TodoUpdate(b) ==
    /\ ("title" \in DOMAIN b /\ b.title # None) =>
          Len(Val(b.title)) >= 1 /\ Len(Val(b.title)) <= TitleMaxLength
    /\ ("priority" \in DOMAIN b /\ b.priority # None) =>
          Val(b.priority) >= PriorityMin /\ Val(b.priority) <= PriorityMax
    /\ ("category" \in DOMAIN b /\ b.category # None) =>
          Len(Val(b.category)) <= CategoryMaxLength
    /\ ("estimated_time" \in DOMAIN b /\ b.estimated_time # None) =>
          Val(b.estimated_time) >= 0

\* pydantic validation against TodoStatusUpdate: status must be an enum member
TodoStatusUpdate(status) == status \in TodoStatus

-----------------------------------------------------------------------------
(* Todo service: the validators of main.py.  Each returns TRUE when the     *)
(* Python function returns and FALSE when it raises HTTPException(422).     *)

\* the six Korean labels are written in romanized form: eopmu (work), gaein
\* (personal), hakseup (learning), geongang (health), jaejeong (finance),
\* gita (other)
allowed_categories == {"eopmu", "gaein", "hakseup", "geongang", "jaejeong", "gita",
                       "Work", "Personal", "Learning", "Health", "Finance", "Other"}

EstimatedTimeMax == 1440

validate_priority(priority) ==
    priority = None \/ (Val(priority) >= 1 /\ Val(priority) <= 5)

validate_category(category) ==
    category = None \/ Val(category) = "" \/ Val(category) \in allowed_categories

validate_status(status) == status \in {"TODO", "DOING", "DONE"}

validate_estimated_time(estimated_time) ==
    estimated_time = None
      \/ (Val(estimated_time) >= 0 /\ Val(estimated_time) <= EstimatedTimeMax)

-----------------------------------------------------------------------------
(* Todo service: models.py *)

\* a row whose status column has no default
Todo_NoStatusDefault(id, t) ==
    [id |-> id, title |-> t.title, description |-> t.description,
     status |-> "none", priority |-> t.priority, category |-> t.category,
     estimated_time |-> t.estimated_time, ai_metadata |-> None]

\* Todo(**todo.dict()) with the column defaults; id is the fresh primary key
Todo(id, t) ==
    [id |-> id, title |-> t.title, description |-> t.description,
     status |-> "TODO", priority |-> t.priority, category |-> t.category,
     estimated_time |-> t.estimated_time, ai_metadata |-> Get(t, "ai_metadata", None)]

\* the constraints of the columns that the database enforces at commit
ColumnsOk(row) ==
    /\ row.title # None /\ Len(Val(row.title)) <= 255
    /\ row.priority # None
    /\ row.category # None => Len(Val(row.category)) <= 50

\* Todo.to_dict(): the snapshot that is serialized into the cache
to_dict(row) ==
    [id |-> row.id, title |-> row.title, description |-> row.description,
     status |-> IF row.status \in TodoStatus THEN row.status ELSE "TODO",
     priority |-> row.priority, category |-> row.category,
     estimated_time |-> row.estimated_time, ai_metadata |-> row.ai_metadata]

-----------------------------------------------------------------------------
(* Todo service: crud.py.  `rc` is the state of Redis, [cache, tags]; `F` is *)
(* the set of Redis commands that raise (connection error) during the       *)
(* request.  A crud function yields [raised, todos, rc, row].               *)

RedisCommands == {"get", "setex", "delete", "smembers", "sadd"}

\* an invalidation that deletes the tagged keys and leaves the tag set
invalidate_todos_list_cache_KeepTags(rc, F) ==
    IF "smembers" \in F THEN rc
    ELSE IF rc.tags = {} THEN rc
    ELSE IF "delete" \in F THEN rc
    ELSE [rc EXCEPT !.cache = [i \in DOMAIN rc.cache |->
                                  IF i \in rc.tags THEN None ELSE rc.cache[i]]]

\* _invalidate_todos_list_cache: every Redis error is caught and printed
invalidate_todos_list_cache(rc, F) ==
    IF "smembers" \in F THEN rc
    ELSE IF rc.tags = {} THEN rc
    ELSE IF "delete" \in F THEN rc
    ELSE [cache |-> [i \in DOMAIN rc.cache |->
                        IF i \in rc.tags THEN None ELSE rc.cache[i]],
          tags |-> {}]

\* cache_todo(todo): SETEX todo:{id} 300 json(to_dict); raises when SETEX does
cache_todo(rc, row) == [rc EXCEPT !.cache[row.id] = Some(to_dict(row))]

\* _cache_todo_with_tags: every Redis error is caught and printed
cache_todo_with_tags(rc, row, F) ==
    IF "setex" \in F THEN rc
    ELSE IF "sadd" \in F THEN cache_todo(rc, row)
    ELSE [cache_todo(rc, row) EXCEPT !.tags = @ \cup {row.id}]

\* redis_client.delete(f"todo:{todo_id}")
redis_delete(rc, id) == [rc EXCEPT !.cache[id] = None]

\* the cache calls that follow the commit in update_todo / update_todo_status
recache_after_update(rc, row, F) ==
    cache_todo_with_tags(invalidate_todos_list_cache(redis_delete(rc, row.id), F), row, F)

crud_get_todo(db, id) == db[id]

crud_create_todo(db, id, t, rc, F) ==
    LET row == Todo(id, t)
    IN IF ~ColumnsOk(row)
       THEN [raised |-> TRUE, todos |-> db, rc |-> rc, row |-> None]
       ELSE [raised |-> FALSE,
             todos |-> [db EXCEPT ![id] = Some(row)],
             rc |-> cache_todo_with_tags(invalidate_todos_list_cache(rc, F), row, F),
             row |-> Some(row)]

\* an update with todo.dict(): the fields that were not supplied are None
crud_update_todo_AllFields(db, id, data, rc, F) ==
    IF crud_get_todo(db, id) = None
    THEN [raised |-> FALSE, todos |-> db, rc |-> rc, row |-> None]
    ELSE LET old == Val(db[id])
             row == [f \in DOMAIN old |->
                        IF f \in DOMAIN data THEN data[f]
                        ELSE IF f \in {"description", "priority", "category", "estimated_time"}
                        THEN None ELSE old[f]]
         IN IF ~ColumnsOk(row)
            THEN [raised |-> TRUE, todos |-> db, rc |-> rc, row |-> None]
            ELSE IF "delete" \in F
            THEN [raised |-> TRUE, todos |-> [db EXCEPT ![id] = Some(row)],
                  rc |-> rc, row |-> None]
            ELSE [raised |-> FALSE, todos |-> [db EXCEPT ![id] = Some(row)],
                  rc |-> recache_after_update(rc, row, F), row |-> Some(row)]

\* `data` is todo.dict(exclude_unset=True): the supplied fields only
crud_update_todo(db, id, data, rc, F) ==
    IF crud_get_todo(db, id) = None
    THEN [raised |-> FALSE, todos |-> db, rc |-> rc, row |-> None]
    ELSE LET old == Val(db[id])
             row == [f \in DOMAIN old |-> IF f \in DOMAIN data THEN data[f] ELSE old[f]]
         IN IF ~ColumnsOk(row)
            THEN [raised |-> TRUE, todos |-> db, rc |-> rc, row |-> None]
            ELSE IF "delete" \in F
            THEN [raised |-> TRUE, todos |-> [db EXCEPT ![id] = Some(row)],
                  rc |-> rc, row |-> None]
            ELSE [raised |-> FALSE, todos |-> [db EXCEPT ![id] = Some(row)],
                  rc |-> recache_after_update(rc, row, F), row |-> Some(row)]

\* a status update that refuses to reopen a task that is DONE
crud_update_todo_status_Graph(db, id, status, rc, F) ==
    IF crud_get_todo(db, id) = None \/ (Val(db[id]).status = "DONE" /\ status # "DONE")
    THEN [raised |-> FALSE, todos |-> db, rc |-> rc, row |-> None]
    ELSE LET row == [Val(db[id]) EXCEPT !.status = status]
         IN IF "delete" \in F
            THEN [raised |-> TRUE, todos |-> [db EXCEPT ![id] = Some(row)],
                  rc |-> rc, row |-> None]
            ELSE [raised |-> FALSE, todos |-> [db EXCEPT ![id] = Some(row)],
                  rc |-> recache_after_update(rc, row, F), row |-> Some(row)]

crud_update_todo_status(db, id, status, rc, F) ==
    IF crud_get_todo(db, id) = None
    THEN [raised |-> FALSE, todos |-> db, rc |-> rc, row |-> None]
    ELSE LET row == [Val(db[id]) EXCEPT !.status = status]
         IN IF "delete" \in F
            THEN [raised |-> TRUE, todos |-> [db EXCEPT ![id] = Some(row)],
                  rc |-> rc, row |-> None]
            ELSE [raised |-> FALSE, todos |-> [db EXCEPT ![id] = Some(row)],
                  rc |-> recache_after_update(rc, row, F), row |-> Some(row)]

\* a delete that leaves the key todo:{id} in Redis
crud_delete_todo_KeepCache(db, id, rc, F) ==
    IF crud_get_todo(db, id) = None
    THEN [raised |-> FALSE, todos |-> db, rc |-> rc, row |-> None]
    ELSE IF "delete" \in F
    THEN [raised |-> TRUE, todos |-> [db EXCEPT ![id] = None], rc |-> rc, row |-> None]
    ELSE [raised |-> FALSE, todos |-> [db EXCEPT ![id] = None],
          rc |-> invalidate_todos_list_cache(rc, F),
          row |-> Some(TRUE)]

\* row = <<TRUE>> when a row was deleted, None when there was none
crud_delete_todo(db, id, rc, F) ==
    IF crud_get_todo(db, id) = None
    THEN [raised |-> FALSE, todos |-> db, rc |-> rc, row |-> None]
    ELSE IF "delete" \in F
    THEN [raised |-> TRUE, todos |-> [db EXCEPT ![id] = None], rc |-> rc, row |-> None]
    ELSE [raised |-> FALSE, todos |-> [db EXCEPT ![id] = None],
          rc |-> invalidate_todos_list_cache(redis_delete(rc, id), F),
          row |-> Some(TRUE)]

\* get_cached_todo(todo_id): GET todo:{id}; raises when GET does
get_cached_todo(rc, id) == rc.cache[id]

-----------------------------------------------------------------------------
(* Todo service: the handlers of main.py.  A handler yields                 *)
(* [todos, rc, code, body]: the table and Redis after the request, the HTTP *)
(* status code and the response body (None when there is none).             *)

Out(db, rc, code, body) == [todos |-> db, rc |-> rc, code |-> code, body |-> body]

\* POST /todos.  An HTTPException raised inside the try block is caught by
\* `except Exception` and answered with 500.
create_todo(db, id, b, rc, F) ==
    IF ~TodoBase(b) THEN Out(db, rc, 422, None)
    ELSE LET t0 == TodoCreate(b)
             t == [t0 EXCEPT !.title = sanitize_string(t0.title, 255),
                             !.description = sanitize_string(t0.description, 2000)]
         IN IF ~validate_priority(t.priority) THEN Out(db, rc, 500, None)
            ELSE IF ~validate_category(t.category) THEN Out(db, rc, 500, None)
            ELSE IF t.title = None \/ Val(t.title) = <<>> THEN Out(db, rc, 500, None)
            ELSE LET r == crud_create_todo(db, id, t, rc, F)
                 IN IF r.raised THEN Out(r.todos, r.rc, 500, None)
                    ELSE Out(r.todos, r.rc, 201, r.row)

\* GET /todos/{todo_id}
\* a GET that queries the table before it looks at the cache
get_todo_StoreFirst(db, id, rc, F) ==
    IF crud_get_todo(db, id) = None THEN Out(db, rc, 404, None) @@ [store_read |-> TRUE]
    ELSE IF "get" \in F THEN Out(db, rc, 500, None) @@ [store_read |-> TRUE]
    ELSE IF get_cached_todo(rc, id) # None
    THEN Out(db, rc, 200, get_cached_todo(rc, id)) @@ [store_read |-> TRUE]
    ELSE IF "setex" \in F THEN Out(db, rc, 500, None) @@ [store_read |-> TRUE]
    ELSE Out(db, cache_todo(rc, Val(db[id])), 200, db[id]) @@ [store_read |-> TRUE]

\* store_read: crud.get_todo(db, todo_id) was called
get_todo(db, id, rc, F) ==
    IF "get" \in F THEN Out(db, rc, 500, None) @@ [store_read |-> FALSE]
    ELSE IF get_cached_todo(rc, id) # None
    THEN Out(db, rc, 200, get_cached_todo(rc, id)) @@ [store_read |-> FALSE]
    ELSE IF crud_get_todo(db, id) = None THEN Out(db, rc, 404, None) @@ [store_read |-> TRUE]
    ELSE IF "setex" \in F THEN Out(db, rc, 500, None) @@ [store_read |-> TRUE]
    ELSE Out(db, cache_todo(rc, Val(db[id])), 200, db[id]) @@ [store_read |-> TRUE]

\* the body of PUT as the TodoUpdate object holds it (keys that are no field
\* of the schema are left out) after the handler's sanitization of title and
\* description
SanitizedUpdate(b) ==
    [f \in DOMAIN b \cap {"title", "description", "priority", "category",
                         "estimated_time"} |->
        IF f = "title" /\ b[f] # None THEN sanitize_string(b[f], 255)
        ELSE IF f = "description" /\ b[f] # None THEN sanitize_string(b[f], 2000)
        ELSE b[f]]

\* PUT /todos/{todo_id}
update_todo(db, id, b, rc, F) ==
    IF ~TodoUpdate(b) THEN Out(db, rc, 422, None)
    ELSE LET t == SanitizedUpdate(b)
         IN IF "title" \in DOMAIN b /\ b.title # None /\ Val(t.title) = <<>>
               THEN Out(db, rc, 422, None)
            ELSE IF "priority" \in DOMAIN t /\ ~validate_priority(t.priority)
               THEN Out(db, rc, 422, None)
            ELSE IF "category" \in DOMAIN t /\ ~validate_category(t.category)
               THEN Out(db, rc, 422, None)
            ELSE IF "estimated_time" \in DOMAIN t
                      /\ ~validate_estimated_time(t.estimated_time)
               THEN Out(db, rc, 422, None)
            ELSE LET r == crud_update_todo(db, id, t, rc, F)
                 IN IF r.raised THEN Out(r.todos, r.rc, 500, None)
                    ELSE IF r.row = None THEN Out(r.todos, r.rc, 404, None)
                    ELSE Out(r.todos, r.rc, 200, r.row)

\* PATCH /todos/{todo_id}/status
update_todo_status(db, id, status, rc, F) ==
    IF ~TodoStatusUpdate(status) THEN Out(db, rc, 422, None)
    ELSE IF ~validate_status(status) THEN Out(db, rc, 422, None)
    ELSE LET r == crud_update_todo_status(db, id, status, rc, F)
         IN IF r.raised THEN Out(r.todos, r.rc, 500, None)
            ELSE IF r.row = None THEN Out(r.todos, r.rc, 404, None)
            ELSE Out(r.todos, r.rc, 200, r.row)

\* DELETE /todos/{todo_id}
delete_todo(db, id, rc, F) ==
    LET r == crud_delete_todo(db, id, rc, F)
    IN IF r.raised THEN Out(r.todos, r.rc, 500, None)
       ELSE IF r.row = None THEN Out(r.todos, r.rc, 404, None)
       ELSE Out(r.todos, r.rc, 204, None)

-----------------------------------------------------------------------------
(* Todo service: the requests of the model and the actions *)

TitleA == Some(<<"a">>)
TitleB == Some(<<"b">>)
TitleBlank == Some(<<" ">>)
TitleOnHandler == Some(<<"o", "n", "x", "=">>)

PostBodies ==
    { [title |-> TitleA],
      [title |-> TitleBlank],
      [title |-> TitleOnHandler],
      [title |-> TitleA, category |-> Some("Hobby")],
      [title |-> TitleA, category |-> Some("Work"), priority |-> Some(1)],
      [title |-> TitleA, priority |-> Some(0)],
      [title |-> TitleA, priority |-> Some(6)],
      [title |-> TitleA, priority |-> Some(5), estimated_time |-> Some(1440)],
      [title |-> TitleA, estimated_time |-> Some(1441)],
      [title |-> TitleA, estimated_time |-> Some(-1)] }

PutBodies ==
    { [priority |-> Some(5)],
      [priority |-> Some(1)],
      [priority |-> Some(0)],
      [priority |-> Some(6)],
      [priority |-> None],
      [estimated_time |-> Some(1440)],
      [estimated_time |-> Some(1441)],
      [estimated_time |-> Some(-1)],
      [category |-> Some("Hobby")],
      [title |-> TitleBlank],
      [title |-> TitleB, description |-> Some(<<"<">>)] }

StatusInputs == TodoStatus \cup {"CANCELLED"}

\* the sets of Redis commands that fail during one request: none, or one
FaultChoices == {{}} \cup {{c} : c \in RedisCommands}

TodoIds == 1..MaxTodos

Redis == [cache |-> redis_cache, tags |-> redis_tags]

\* the request `op` on `id` with body `b` is handled with outcome `o`
Respond(op, id, b, F, o) ==
    /\ nreq < MaxRequests
    /\ todos' = o.todos
    /\ redis_cache' = o.rc.cache
    /\ redis_tags' = o.rc.tags
    /\ resp' = [op |-> op, id |-> id, req |-> b, code |-> o.code, body |-> o.body]
    /\ nreq' = nreq + 1
    /\ UNCHANGED reqVars
    /\ UNCHANGED <<rateVars, agentVars, pipeVars, apiVars>>

\* the requests that take a database session
DbRequests == 1..MaxSessions

\* a request that has not started, or has been answered with `code`
Idle == [pc |-> "idle", code |-> 0]

TodoInit ==
    /\ todos = [i \in TodoIds |-> None]
    /\ nextId = 1
    /\ redis_cache = [i \in TodoIds |-> None]
    /\ redis_tags = {}
    /\ resp = [op |-> "none", id |-> 0, req |-> None, code |-> 0, body |-> None]
    /\ nreq = 0
    /\ clock = 1
    /\ expire_at = [i \in TodoIds |-> 0]
    /\ created_at = [i \in TodoIds |-> 0]
    /\ updated_at = [i \in TodoIds |-> 0]
    /\ store_read = FALSE
    /\ sessions = [r \in DbRequests |-> [pc |-> "none", conn |-> FALSE, code |-> 0]]
    /\ checked_out = 0
    /\ running = [reader |-> Idle, writer |-> Idle]

PostTodo(b, F) ==
    /\ nextId <= MaxTodos
    /\ LET o == create_todo(todos, nextId, b, Redis, F)
       IN /\ Respond("POST", nextId, b, F, o)
          /\ nextId' = IF o.code = 201 THEN nextId + 1 ELSE nextId
    /\ UNCHANGED timeVars

GetTodo(id, F) ==
    /\ Respond("GET", id, None, F, get_todo(todos, id, Redis, F))
    /\ UNCHANGED <<nextId, timeVars>>

PutTodo(id, b, F) ==
    /\ Respond("PUT", id, b, F, update_todo(todos, id, b, Redis, F))
    /\ UNCHANGED <<nextId, timeVars>>

PatchStatus(id, status, F) ==
    /\ Respond("PATCH", id, Some(status), F, update_todo_status(todos, id, status, Redis, F))
    /\ UNCHANGED <<nextId, timeVars>>

DeleteTodo(id, F) ==
    /\ Respond("DELETE", id, None, F, delete_todo(todos, id, Redis, F))
    /\ UNCHANGED <<nextId, timeVars>>

\* Redis drops the key todo:{id} when its 300-second expiry has passed
ExpireKey(id) ==
    /\ redis_cache[id] # None
    /\ redis_cache' = [redis_cache EXCEPT ![id] = None]
    /\ UNCHANGED <<todos, nextId, redis_tags, resp, nreq, timeVars, reqVars>>
    /\ UNCHANGED <<rateVars, agentVars, pipeVars, apiVars>>

\* the ids a client asks for: those handed out so far and one unknown id
KnownIds == {id \in TodoIds : id <= nextId}

TodoNext ==
    \/ \E b \in PostBodies, F \in FaultChoices : PostTodo(b, F)
    \/ \E id \in KnownIds, F \in FaultChoices : GetTodo(id, F)
    \/ \E id \in KnownIds, b \in PutBodies, F \in FaultChoices : PutTodo(id, b, F)
    \/ \E id \in KnownIds, s \in StatusInputs, F \in FaultChoices : PatchStatus(id, s, F)
    \/ \E id \in KnownIds, F \in FaultChoices : DeleteTodo(id, F)
    \/ \E id \in TodoIds : ExpireKey(id)

-----------------------------------------------------------------------------
(* Todo service: creates and updates with titles and descriptions at the    *)
(* limits of their lengths                                                  *)

\* a text of n characters: n - 1 times "a", then c
TextOf(n, c) == [i \in 1..n |-> IF i < n THEN "a" ELSE c]

LimitBodies ==
    {[title |-> Some(TextOf(n, c))] :
        n \in {1, TitleMaxLength, TitleMaxLength + 1}, c \in {"a", "&"}}
    \cup {[title |-> TitleA, description |-> Some(TextOf(DescriptionMaxLength, c))] :
             c \in {"a", "&"}}

LimitNext ==
    \/ \E b \in LimitBodies : PostTodo(b, {})
    \/ \E id \in KnownIds, b \in LimitBodies : PutTodo(id, b, {})

-----------------------------------------------------------------------------
(* Todo service: the database session of each request.  FastAPI calls       *)
(* get_db up to its yield before the handler, gives the handler the         *)
(* session, and resumes the generator when the handler has returned or      *)
(* raised.  The handlers are coroutines without an await, so a handler      *)
(* runs in one step; the two halves of get_db run in the thread pool, and   *)
(* other requests run between them and the handler.                         *)

\* get_db resumed at its yield without the finally clause: db.close() is
\* reached only when the handler returned
get_db_NoFinally(session, exit) ==
    IF exit = "raise" THEN [session EXCEPT !.pc = "closed"]
    ELSE [session EXCEPT !.pc = "closed", !.conn = FALSE]
\* get_db resumed at its yield, by the handler's return (exit = "return")
\* or by its exception (exit = "raise"): finally: db.close() gives the
\* connection of the session back to the pool
get_db(session, exit) == [session EXCEPT !.pc = "closed", !.conn = FALSE]

\* db = SessionLocal(); yield db
OpenSession(r) ==
    /\ sessions[r].pc = "none"
    /\ sessions' = [sessions EXCEPT ![r].pc = "yielded"]
    /\ UNCHANGED <<todos, nextId, redis_cache, redis_tags, resp, nreq, timeVars, checked_out>>
    /\ UNCHANGED running
    /\ UNCHANGED <<rateVars, agentVars, pipeVars, apiVars>>

\* the handler of request r runs `op` on `id` with outcome `o`; the session
\* takes a connection at its first statement and keeps it (commit gives
\* it back, refresh takes it again).  query tells whether the handler got to
\* a statement
RunHandler(r, op, id, b, o, query) ==
    /\ sessions[r].pc = "yielded"
    /\ todos' = o.todos
    /\ redis_cache' = o.rc.cache
    /\ redis_tags' = o.rc.tags
    /\ resp' = [op |-> op, id |-> id, req |-> b, code |-> o.code, body |-> o.body]
    /\ nreq' = nreq + 1
    /\ nextId' = IF op = "POST" /\ o.code = 201 THEN nextId + 1 ELSE nextId
    /\ sessions' = [sessions EXCEPT ![r] =
                       [pc |-> IF o.code >= 400 THEN "raise" ELSE "return",
                        conn |-> query, code |-> o.code]]
    /\ checked_out' = checked_out + (IF query THEN 1 ELSE 0)
    /\ UNCHANGED <<timeVars, running>>
    /\ UNCHANGED <<rateVars, agentVars, pipeVars, apiVars>>

\* the generator of request r is resumed and ends
CloseSession(r) ==
    /\ sessions[r].pc \in {"return", "raise"}
    /\ sessions' = [sessions EXCEPT ![r] = get_db(@, @.pc)]
    /\ checked_out' = checked_out - (IF sessions[r].conn /\ ~sessions'[r].conn THEN 1 ELSE 0)
    /\ UNCHANGED <<todos, nextId, redis_cache, redis_tags, resp, nreq, timeVars, running>>
    /\ UNCHANGED <<rateVars, agentVars, pipeVars, apiVars>>

\* the requests of the model: one that succeeds, is refused (422), finds
\* nothing (404) or fails (500) for each route that takes a session
SessionNext ==
    \/ \E r \in DbRequests : OpenSession(r)
    \/ \E r \in DbRequests, b \in {[title |-> TitleA], [title |-> TitleBlank]},
          F \in {{}, {"smembers"}} :
          /\ nextId <= MaxTodos
          /\ RunHandler(r, "POST", nextId, b, create_todo(todos, nextId, b, Redis, F), TRUE)
    \/ \E r \in DbRequests, id \in KnownIds, F \in {{}, {"get"}} :
          LET o == get_todo(todos, id, Redis, F)
          IN RunHandler(r, "GET", id, None, o, o.store_read)
    \/ \E r \in DbRequests, id \in KnownIds,
          b \in {[priority |-> Some(5)], [priority |-> Some(6)]}, F \in {{}, {"delete"}} :
          RunHandler(r, "PUT", id, b, update_todo(todos, id, b, Redis, F), TRUE)
    \/ \E r \in DbRequests, id \in KnownIds, s \in {"DONE", "CANCELLED"} :
          RunHandler(r, "PATCH", id, Some(s), update_todo_status(todos, id, s, Redis, {}), TRUE)
    \/ \E r \in DbRequests, id \in KnownIds :
          RunHandler(r, "DELETE", id, None, delete_todo(todos, id, Redis, {}), TRUE)
    \/ \E r \in DbRequests : CloseSession(r)

-----------------------------------------------------------------------------
(* Todo service: a GET /todos/{id} and a mutation of the same task whose    *)
(* store and cache calls interleave, as they do between two processes of    *)
(* the service that share the database and Redis.  Each Redis command and   *)
(* each transaction of the database is one step; no command fails.          *)

\* the part of a step that every step of the two requests leaves alone
RaceFrame ==
    /\ UNCHANGED <<nextId, resp, timeVars, sessions, checked_out>>
    /\ UNCHANGED <<rateVars, agentVars, pipeVars, apiVars>>

\* get_todo, main.py: cached_todo = crud.get_cached_todo(todo_id)
ReadCache(id) ==
    /\ running.reader.pc = "idle" /\ nreq < MaxRequests
    /\ nreq' = nreq + 1
    /\ running' = [running EXCEPT !.reader =
          IF get_cached_todo(Redis, id) # None
          THEN [pc |-> "idle", code |-> 200]
          ELSE [pc |-> "query", id |-> id, overtaken |-> FALSE]]
    /\ UNCHANGED <<todos, redis_cache, redis_tags>>
    /\ RaceFrame

\* db_todo = crud.get_todo(db, todo_id), and the 404 when there is no row
ReadStore ==
    /\ running.reader.pc = "query"
    /\ running' = [running EXCEPT !.reader =
          IF crud_get_todo(todos, @.id) = None
          THEN [pc |-> "idle", code |-> 404]
          ELSE [pc |-> "setex", id |-> @.id, overtaken |-> FALSE,
                db_todo |-> Val(crud_get_todo(todos, @.id))]]
    /\ UNCHANGED <<todos, redis_cache, redis_tags, nreq>>
    /\ RaceFrame

\* crud.cache_todo(db_todo); return db_todo
WriteCache ==
    /\ running.reader.pc = "setex"
    /\ redis_cache' = cache_todo(Redis, running.reader.db_todo).cache
    /\ running' = [running EXCEPT !.reader =
                       [pc |-> "idle", code |-> 200, overtaken |-> @.overtaken]]
    /\ UNCHANGED <<todos, redis_tags, nreq>>
    /\ RaceFrame

\* crud.update_todo / update_todo_status / delete_todo up to db.commit() and
\* db.refresh(): `r` is what the crud function does to the table.  A reader
\* that holds a row it read before this commit is overtaken
Commit(op, id, r) ==
    /\ running.writer.pc = "idle" /\ nreq < MaxRequests
    /\ nreq' = nreq + 1
    /\ todos' = r.todos
    /\ running' =
          [reader |-> IF running.reader.pc = "setex" /\ running.reader.id = id /\ r.row # None
                      THEN [running.reader EXCEPT !.overtaken = TRUE]
                      ELSE running.reader,
           writer |-> IF r.row = None THEN [pc |-> "idle", code |-> 404]
                      ELSE [pc |-> "delete", op |-> op, id |-> id, row |-> r.row]]
    /\ UNCHANGED <<redis_cache, redis_tags>>
    /\ RaceFrame

\* redis_client.delete(f"todo:{todo_id}")
DeleteKey ==
    /\ running.writer.pc = "delete"
    /\ redis_cache' = redis_delete(Redis, running.writer.id).cache
    /\ running' = [running EXCEPT !.writer.pc = "smembers"]
    /\ UNCHANGED <<todos, redis_tags, nreq>>
    /\ RaceFrame

\* the cache calls that follow _invalidate_todos_list_cache: none after a
\* delete, _cache_todo_with_tags after an update
AfterInvalidate(w) ==
    IF w.op = "DELETE" THEN [pc |-> "idle", code |-> 204]
    ELSE [w EXCEPT !.pc = "setex"]

\* _invalidate_todos_list_cache: list_keys = redis_client.smembers(...)
ReadTags ==
    /\ running.writer.pc = "smembers"
    /\ running' = [running EXCEPT !.writer =
          IF redis_tags = {} THEN AfterInvalidate(@)
          ELSE [@ EXCEPT !.pc = "delete_keys"] @@ [list_keys |-> redis_tags]]
    /\ UNCHANGED <<todos, redis_cache, redis_tags, nreq>>
    /\ RaceFrame

\* redis_client.delete(*list_keys)
DeleteTagged ==
    /\ running.writer.pc = "delete_keys"
    /\ redis_cache' = [i \in TodoIds |->
                          IF i \in running.writer.list_keys THEN None ELSE redis_cache[i]]
    /\ running' = [running EXCEPT !.writer.pc = "delete_tags"]
    /\ UNCHANGED <<todos, redis_tags, nreq>>
    /\ RaceFrame

\* redis_client.delete(CACHE_TAGS["todos_list"])
DeleteTags ==
    /\ running.writer.pc = "delete_tags"
    /\ redis_tags' = {}
    /\ running' = [running EXCEPT !.writer = AfterInvalidate(@)]
    /\ UNCHANGED <<todos, redis_cache, nreq>>
    /\ RaceFrame

\* _cache_todo_with_tags: cache_todo(todo)
WriterSetex ==
    /\ running.writer.pc = "setex"
    /\ redis_cache' = cache_todo(Redis, Val(running.writer.row)).cache
    /\ running' = [running EXCEPT !.writer.pc = "sadd"]
    /\ UNCHANGED <<todos, redis_tags, nreq>>
    /\ RaceFrame

\* _cache_todo_with_tags: redis_client.sadd(...), and the handler returns
WriterSadd ==
    /\ running.writer.pc = "sadd"
    /\ redis_tags' = redis_tags \cup {running.writer.id}
    /\ running' = [running EXCEPT !.writer = [pc |-> "idle", code |-> 200]]
    /\ UNCHANGED <<todos, redis_cache, nreq>>
    /\ RaceFrame

\* the requests of the model: a create, reads, and an update, a status
\* update or a delete, of a task that was created (its id is not known to a
\* client before); the key of a task expires
RaceNext ==
    \/ PostTodo([title |-> TitleA], {})
    \/ \E id \in TodoIds : ExpireKey(id)
    \/ \E id \in 1..(nextId - 1) : ReadCache(id)
    \/ ReadStore
    \/ WriteCache
    \/ \E id \in 1..(nextId - 1) :
          \/ Commit("PUT", id, crud_update_todo(todos, id, [priority |-> Some(5)], Redis, {}))
          \/ Commit("PATCH", id, crud_update_todo_status(todos, id, "DONE", Redis, {}))
          \/ Commit("DELETE", id, crud_delete_todo(todos, id, Redis, {}))
    \/ DeleteKey
    \/ ReadTags
    \/ DeleteTagged
    \/ DeleteTags
    \/ WriterSetex
    \/ WriterSadd

-----------------------------------------------------------------------------
(* Todo service with time: the clock of the database (func.now()) and of    *)
(* Redis (the expiry of setex).  A request starts at `clock` and the next   *)
(* one starts later.                                                        *)

MaxClock == 600
CacheTtl == 300

\* Redis as a request at time `clock` sees it: a key whose expiry has
\* passed is not there
LiveRedis ==
    [cache |-> [i \in TodoIds |-> IF expire_at[i] > clock THEN redis_cache[i] ELSE None],
     tags |-> redis_tags]

\* setex(key, 300, ...) with an expiry that is never reached
ExpiryOfSetex_Never == MaxClock + CacheTtl + 1
\* setex(f"todo:{todo.id}", expire, ...): the key expires `expire` seconds on
ExpiryOfSetex == clock + CacheTtl

\* onupdate=func.now() is applied by the UPDATE statement, and the session
\* issues an UPDATE only for a row with a column whose value has changed
Updated(before, after) == before # after

\* the handler of request `op` on `id`, started at `clock`, had outcome `o`:
\* the expiry of the keys, the timestamp columns and the time afterwards
Timed(op, id, b, F, o) ==
    /\ Respond(op, id, b, F, o)
    /\ clock < MaxClock
    /\ clock' = clock + 1
    /\ expire_at' =
          [i \in TodoIds |->
              IF o.rc.cache[i] = None THEN 0
              ELSE IF i = id /\ \/ op = "GET" /\ LiveRedis.cache[i] = None
                                \/ op \in {"POST", "PUT", "PATCH"} /\ o.code \in {200, 201}
              THEN ExpiryOfSetex
              ELSE expire_at[i]]
    /\ created_at' =
          [i \in TodoIds |-> IF o.todos[i] = None THEN 0
                             ELSE IF todos[i] = None THEN clock ELSE created_at[i]]
    /\ updated_at' =
          [i \in TodoIds |-> IF o.todos[i] = None THEN 0
                             ELSE IF todos[i] = None THEN clock
                             ELSE IF Updated(todos[i], o.todos[i]) THEN clock
                             ELSE updated_at[i]]
    /\ store_read' = (op = "GET" /\ o.store_read)

TimedPost(b, F) ==
    /\ nextId <= MaxTodos
    /\ LET o == create_todo(todos, nextId, b, LiveRedis, F)
       IN /\ Timed("POST", nextId, b, F, o)
          /\ nextId' = IF o.code = 201 THEN nextId + 1 ELSE nextId

TimedGet(id, F) ==
    /\ Timed("GET", id, None, F, get_todo(todos, id, LiveRedis, F))
    /\ UNCHANGED nextId

TimedPut(id, b, F) ==
    /\ Timed("PUT", id, b, F, update_todo(todos, id, b, LiveRedis, F))
    /\ UNCHANGED nextId

TimedPatch(id, status, F) ==
    /\ Timed("PATCH", id, Some(status), F, update_todo_status(todos, id, status, LiveRedis, F))
    /\ UNCHANGED nextId

TimedDelete(id, F) ==
    /\ Timed("DELETE", id, None, F, delete_todo(todos, id, LiveRedis, F))
    /\ UNCHANGED nextId

\* time passes between two requests
Elapse(d) ==
    /\ clock + d <= MaxClock
    /\ clock' = clock + d
    /\ UNCHANGED <<todos, nextId, redis_cache, redis_tags, resp, nreq>>
    /\ UNCHANGED <<expire_at, created_at, updated_at, store_read, reqVars>>
    /\ UNCHANGED <<rateVars, agentVars, pipeVars, apiVars>>

\* the requests of the model: a create with and without a priority, updates
\* that change a value and updates that give the value the row already has,
\* and a create and an update whose body has a key ai_metadata
ClockNext ==
    \/ \E b \in {[title |-> TitleA], [title |-> TitleA, priority |-> Some(5)],
                 [title |-> TitleA, ai_metadata |-> Some("ai")]},
          F \in {{}, {"setex"}} : TimedPost(b, F)
    \/ \E id \in KnownIds, F \in {{}, {"get"}, {"setex"}} : TimedGet(id, F)
    \/ \E id \in KnownIds,
          b \in {[priority |-> Some(3)], [priority |-> Some(5)],
                 [priority |-> Some(3), ai_metadata |-> Some("ai")]},
          F \in {{}, {"delete"}} : TimedPut(id, b, F)
    \/ \E id \in KnownIds, s \in {"TODO", "DONE"}, F \in {{}, {"setex"}} : TimedPatch(id, s, F)
    \/ \E id \in KnownIds : TimedDelete(id, {})
    \/ \E d \in {CacheTtl - 2, CacheTtl - 1} : Elapse(d)

-----------------------------------------------------------------------------
(* The edge middleware's rate limiter (main.py of both services) *)

RATE_LIMIT_REQUESTS_AI == 60
RATE_LIMIT_REQUESTS_TODO == 100
RATE_LIMIT_WINDOW == 60

Services == {"ai", "todo"}
RATE_LIMIT_REQUESTS ==
    IF service = "ai" THEN RATE_LIMIT_REQUESTS_AI ELSE RATE_LIMIT_REQUESTS_TODO

\* client "a" sends any number of requests, client "b" at most MaxOtherRequests
ClientIps == {"a", "b"}
Paths == {"/health", "/work"}

\* the pruning with <= in place of <
Prune_Inclusive(times, current_time) ==
    SelectSeq(times, LAMBDA req_time : current_time - req_time <= RATE_LIMIT_WINDOW)

\* [req_time for req_time in times if current_time - req_time < RATE_LIMIT_WINDOW]
Prune(times, current_time) ==
    SelectSeq(times, LAMBDA req_time : current_time - req_time < RATE_LIMIT_WINDOW)

\* a limiter that records the time of a request it rejects too
check_rate_limit_RecordsRejected(times, current_time) ==
    LET kept == Prune(times, current_time)
    IN [allowed |-> Len(kept) < RATE_LIMIT_REQUESTS, times |-> Append(kept, current_time)]

\* check_rate_limit(client_ip): [allowed, times], the answer and
\* request_counts[client_ip] after the call
check_rate_limit(times, current_time) ==
    LET kept == Prune(times, current_time)
    IN IF Len(kept) >= RATE_LIMIT_REQUESTS
       THEN [allowed |-> FALSE, times |-> kept]
       ELSE [allowed |-> TRUE, times |-> Append(kept, current_time)]

\* the path is exempt from rate limiting: request.url.path.endswith("/health")
IsHealthPath(path) == path = "/health"

RateInit ==
    /\ service \in Services
    /\ now = 0
    /\ request_counts = [ip \in ClientIps |-> <<>>]
    /\ admitted_log = [ip \in ClientIps |-> [t \in {} |-> 0]]
    /\ rl = [ip |-> "none", path |-> "none", time |-> 0, code |-> 0, headers |-> {}]

\* the number of requests of `log` let through in the window that ends at t
InWindow(log, t) ==
    LET ts == {u \in DOMAIN log : t - u < RATE_LIMIT_WINDOW}
        RECURSIVE Sum(_)
        Sum(S) == IF S = {} THEN 0
                  ELSE LET u == CHOOSE u \in S : TRUE IN log[u] + Sum(S \ {u})
    IN Sum(ts)

LogAdd(log, t) ==
    [u \in DOMAIN log \cup {t} |-> IF u \in DOMAIN log THEN
                                      (IF u = t THEN log[u] + 1 ELSE log[u]) ELSE 1]


\* the headers the middleware sets on the response call_next returned
ResponseHeaders ==
    {"X-Correlation-ID", "X-Content-Type-Options", "X-Frame-Options",
     "X-XSS-Protection", "Referrer-Policy", "Content-Security-Policy"}

\* the headers of the answer: the assignments come after call_next, so
\* they are not run when the middleware raises HTTPException(429) before it
HeadersSet(allowed) == IF allowed THEN ResponseHeaders ELSE {}

\* a middleware that keeps one list for all clients
Middleware_OneList(ip, path) ==
    /\ ip = "b" => Len(request_counts["b"]) < MaxOtherRequests
    /\ IF IsHealthPath(path)
       THEN /\ rl' = [ip |-> ip, path |-> path, time |-> now, code |-> 200,
                       headers |-> HeadersSet(TRUE)]
            /\ UNCHANGED <<request_counts, admitted_log>>
       ELSE LET r == check_rate_limit(request_counts["a"], now)
            IN /\ request_counts' = [request_counts EXCEPT !["a"] = r.times]
               /\ rl' = [ip |-> ip, path |-> path, time |-> now,
                         code |-> IF r.allowed THEN 200 ELSE 429,
                         headers |-> HeadersSet(r.allowed)]
               /\ admitted_log' = IF r.allowed
                                  THEN [admitted_log EXCEPT ![ip] = LogAdd(@, now)]
                                  ELSE admitted_log
    /\ UNCHANGED <<service, now, todoVars, agentVars, pipeVars, apiVars>>

\* security_and_correlation_middleware: code 429 when the middleware raises
\* HTTPException(429), 200 when the request is passed on and the response
\* of call_next is returned with the headers set
Middleware(ip, path) ==
    /\ ip = "b" => Len(request_counts["b"]) < MaxOtherRequests
    /\ IF IsHealthPath(path)
       THEN /\ rl' = [ip |-> ip, path |-> path, time |-> now, code |-> 200,
                       headers |-> HeadersSet(TRUE)]
            /\ UNCHANGED <<request_counts, admitted_log>>
       ELSE LET r == check_rate_limit(request_counts[ip], now)
            IN /\ request_counts' = [request_counts EXCEPT ![ip] = r.times]
               /\ rl' = [ip |-> ip, path |-> path, time |-> now,
                         code |-> IF r.allowed THEN 200 ELSE 429,
                         headers |-> HeadersSet(r.allowed)]
               /\ admitted_log' = IF r.allowed
                                  THEN [admitted_log EXCEPT ![ip] = LogAdd(@, now)]
                                  ELSE admitted_log
    /\ UNCHANGED <<service, now, todoVars, agentVars, pipeVars, apiVars>>

\* time passes: just less than the window, or the whole window
Tick(d) ==
    /\ now + d <= MaxTime
    /\ now' = now + d
    /\ UNCHANGED <<service, request_counts, admitted_log, rl>>
    /\ UNCHANGED <<todoVars, agentVars, pipeVars, apiVars>>

RateNext ==
    \/ \E ip \in ClientIps, path \in Paths : Middleware(ip, path)
    \/ \E d \in {RATE_LIMIT_WINDOW - 1, RATE_LIMIT_WINDOW} : Tick(d)

-----------------------------------------------------------------------------
(* AI service: agents.py *)

\* Python dicts are records whose DOMAIN is the set of keys present
setdefault(d, k, v) ==
    [x \in DOMAIN d \cup {k} |-> IF x \in DOMAIN d THEN d[x] ELSE v]

\* d[k] = v
SetItem(d, k, v) == [x \in DOMAIN d \cup {k} |-> IF x = k THEN v ELSE d[x]]

EmptyDict == [x \in {} |-> None]

\* what `await self.llm.ainvoke(messages)` gives: it raises (time-out, API
\* error), or returns content that is not JSON, or content that is JSON
Raises == [kind |-> "raises"]
Text(content) == [kind |-> "text", content |-> content]
NotJson == Text("not json")
Json(d) == [kind |-> "json", value |-> d]

\* confidences are kept in hundredths: 0.3 is 30, 0.7 is 70
Gita == "gita"

\* the body of each agent's try block: it raises, or it returns `value`
parse_try(input_text, response) ==
    IF response.kind # "json" THEN [raised |-> TRUE]
    ELSE LET result == setdefault(setdefault(setdefault(response.value,
                           "priority", 3), "category", Gita), "estimated_time", 30)
         IN IF "title" \notin DOMAIN result
            THEN [raised |-> TRUE]
            ELSE [raised |-> FALSE, value |-> result]

json_try(response) ==
    IF response.kind # "json" THEN [raised |-> TRUE]
    ELSE [raised |-> FALSE, value |-> response.value]

\* input_text[:255]
FallbackTitleLength == 255
Slice(s, n) == SubSeq(s, 1, IF Len(s) < n THEN Len(s) ELSE n)

parse_fallback(input_text) ==
    [title |-> Slice(input_text, FallbackTitleLength), description |-> None,
     priority |-> 3, category |-> Gita, estimated_time |-> 30]

recommend_fallback(todo_data) ==
    [recommended_priority |-> Get(todo_data, "priority", 3),
     reasoning |-> "priority analysis failed", confidence |-> 30]

categorize_fallback ==
    [category |-> Gita, confidence |-> 30, reasoning |-> "classification failed"]

estimate_fallback ==
    [estimated_minutes |-> 30, confidence |-> 30, suggestion |-> "estimation failed"]

analyze_fallback == "Unable to analyze todos at this time."

\* a try block with no except clause
Uncaught(r, fallback) == r

\* try / except Exception: the except clauses return the fallback
Caught(r, fallback) == IF r.raised THEN [raised |-> FALSE, value |-> fallback] ELSE r

parse(input_text, response) ==
    Caught(parse_try(input_text, response), parse_fallback(input_text))

recommend(todo_data, response) ==
    Caught(json_try(response), recommend_fallback(todo_data))

categorize(todo_data, response) == Caught(json_try(response), categorize_fallback)

estimate(todo_data, response) == Caught(json_try(response), estimate_fallback)

\* BatchAnalysisAgent.analyze returns response.content as it is
analyze(todo_list, response) ==
    IF response.kind = "raises"
    THEN [raised |-> FALSE, value |-> analyze_fallback]
    ELSE [raised |-> FALSE, value |-> response.content]

MAX_CONCURRENT_REQUESTS == 10
max_retries == 3

\* the agents decorated with with_exponential_backoff, which acquire a slot
GatedAgents == {"parse", "recommend", "categorize", "estimate"}
Agents == GatedAgents \cup {"analyze"}

Coroutine(agent, attempt, at) == [agent |-> agent, attempt |-> attempt, at |-> at]
One(c) == SetToBag({c})

\* the coroutines that await llm.ainvoke
InFlight == {c \in BagToSet(coroutines) : c.at = "llm"}
RECURSIVE Copies(_)
Copies(S) == IF S = {} THEN 0
             ELSE LET c == CHOOSE c \in S : TRUE
                  IN CopiesIn(c, coroutines) + Copies(S \ {c})
InFlightLLMCalls == Copies(InFlight)

ShortText == <<"a">>
LongText == [i \in 1..(FallbackTitleLength + 1) |-> "a"]
ReportTitle == <<"r", "e", "p", "o", "r", "t">>

ParsedFull ==
    [title |-> ReportTitle, description |-> None, priority |-> 2,
     category |-> "Work", estimated_time |-> 45]

ParseResponses ==
    {Raises, NotJson, Json(ParsedFull), Json([title |-> ReportTitle]),
     Json([priority |-> 2])}

Confidences == {70, 71}

RecommendResponses ==
    {Raises, NotJson, Json([recommended_priority |-> 5, confidence |-> 71])}
    \cup {Json([recommended_priority |-> 5, reasoning |-> "due soon", confidence |-> c]) :
            c \in Confidences}

CategorizeResponses ==
    {Raises, NotJson}
    \cup {Json([category |-> "Health", confidence |-> c, reasoning |-> "exercise"]) :
            c \in Confidences}

EstimateResponses ==
    {Raises, NotJson}
    \cup {Json([estimated_minutes |-> 120, confidence |-> c]) : c \in Confidences}

AnalyzeResponses == {Raises, Text("insights")}

TodoDatas == {ParsedFull, [title |-> ReportTitle]}

AgentInputs(agent) ==
    IF agent = "parse" THEN {ShortText, LongText}
    ELSE IF agent = "analyze" THEN {<<ParsedFull>>}
    ELSE IF agent = "recommend" THEN TodoDatas
    ELSE {ParsedFull}

AgentResponses(agent) ==
    CASE agent = "parse" -> ParseResponses
      [] agent = "recommend" -> RecommendResponses
      [] agent = "categorize" -> CategorizeResponses
      [] agent = "estimate" -> EstimateResponses
      [] agent = "analyze" -> AnalyzeResponses

\* the decorated function (the undecorated one for analyze) run to its return
AgentBody(agent, input, response) ==
    CASE agent = "parse" -> parse(input, response)
      [] agent = "recommend" -> recommend(input, response)
      [] agent = "categorize" -> categorize(input, response)
      [] agent = "estimate" -> estimate(input, response)
      [] agent = "analyze" -> analyze(input, response)

AgentInit ==
    /\ _concurrent_requests = 0
    /\ coroutines = EmptyBag
    /\ ret = [agent |-> "none"]

\* acquire_request_slot: the caller polls until a slot is free
acquire_request_slot ==
    /\ _concurrent_requests < MAX_CONCURRENT_REQUESTS
    /\ _concurrent_requests' = _concurrent_requests + 1

\* an agent whose slot is not given back
release_request_slot_Never == _concurrent_requests
\* release_request_slot: max(0, _concurrent_requests - 1)
release_request_slot ==
    IF _concurrent_requests - 1 > 0 THEN _concurrent_requests - 1 ELSE 0

\* with_exponential_backoff's wrapper enters attempt number `attempt` of a
\* gated agent, the first one of a new call or a later one after the sleep,
\* and the agent runs up to `await self.llm.ainvoke`
Attempt(agent, attempt) ==
    /\ acquire_request_slot
    /\ IF attempt = 0
       THEN coroutines' = coroutines (+) One(Coroutine(agent, 0, "llm"))
       ELSE /\ BagIn(Coroutine(agent, attempt, "sleep"), coroutines)
            /\ coroutines' = (coroutines (-) One(Coroutine(agent, attempt, "sleep")))
                                (+) One(Coroutine(agent, attempt, "llm"))
    /\ UNCHANGED <<ret, todoVars, rateVars, pipeVars, apiVars>>

\* the LLM call of a gated agent ends (the call's arguments act only from here
\* on, so they are drawn here): the agent returns or raises, the slot
\* is released in the finally clause, and the wrapper returns, sleeps or re-raises
Return(c, input, response) ==
    /\ c.agent \in GatedAgents /\ c.at = "llm"
    /\ BagIn(c, coroutines)
    /\ _concurrent_requests' = release_request_slot
    /\ LET r == AgentBody(c.agent, input, response)
           done == [agent |-> c.agent, input |-> input, response |-> response,
                    attempts |-> c.attempt + 1, raised |-> r.raised]
       IN IF ~r.raised
          THEN /\ ret' = [done EXCEPT !.raised = FALSE] @@ [value |-> r.value]
               /\ coroutines' = coroutines (-) One(c)
          ELSE IF c.attempt = max_retries - 1
          THEN /\ ret' = done
               /\ coroutines' = coroutines (-) One(c)
          ELSE /\ coroutines' = (coroutines (-) One(c))
                                   (+) One(Coroutine(c.agent, c.attempt + 1, "sleep"))
               /\ UNCHANGED ret
    /\ UNCHANGED <<todoVars, rateVars, pipeVars, apiVars>>

\* BatchAnalysisAgent.analyze runs up to `await self.llm.ainvoke`
BatchCall ==
    /\ CopiesIn(Coroutine("analyze", 0, "llm"), coroutines) < MaxBatchCalls
    /\ coroutines' = coroutines (+) One(Coroutine("analyze", 0, "llm"))
    /\ UNCHANGED <<_concurrent_requests, ret, todoVars, rateVars, pipeVars, apiVars>>

BatchReturn(input, response) ==
    /\ BagIn(Coroutine("analyze", 0, "llm"), coroutines)
    /\ coroutines' = coroutines (-) One(Coroutine("analyze", 0, "llm"))
    /\ ret' = [agent |-> "analyze", input |-> input, response |-> response,
               attempts |-> 1, raised |-> FALSE,
               value |-> analyze(input, response).value]
    /\ UNCHANGED <<_concurrent_requests, todoVars, rateVars, pipeVars, apiVars>>

AgentNext ==
    \/ \E agent \in GatedAgents, attempt \in 0..(max_retries - 1) : Attempt(agent, attempt)
    \/ \E c \in BagToSet(coroutines) :
         \E input \in AgentInputs(c.agent), response \in AgentResponses(c.agent) :
            Return(c, input, response)
    \/ BatchCall
    \/ \E input \in AgentInputs("analyze"), response \in AgentResponses("analyze") :
         BatchReturn(input, response)

\* The calls of the gated agents with the wait for a slot as a state of its
\* own: a call arrives, polls in acquire_request_slot until it finds a slot
\* free, and awaits the LLM.  One call of parse is followed among the calls
\* of the three suggestion agents, which come and go without end.

\* a gated agent is called: the wrapper enters its first attempt and the
\* agent awaits acquire_request_slot, which takes a slot at once when one is
\* free (the loop's test fails and nothing is awaited) and sleeps otherwise
Call(agent) ==
    /\ BagCardinality(coroutines) < MaxCalls
    /\ agent = "parse" => \A c \in BagToSet(coroutines) : c.agent # "parse"
    /\ IF _concurrent_requests < MAX_CONCURRENT_REQUESTS
       THEN Attempt(agent, 0)
       ELSE /\ coroutines' = coroutines (+) One(Coroutine(agent, 0, "wait"))
            /\ UNCHANGED <<_concurrent_requests, ret, todoVars, rateVars, pipeVars, apiVars>>

\* a waiting call that does not test the counter again
Acquire_NoPoll(agent) ==
    /\ BagIn(Coroutine(agent, 0, "wait"), coroutines)
    /\ _concurrent_requests < 0
    /\ UNCHANGED <<coroutines, _concurrent_requests>>
    /\ UNCHANGED <<ret, todoVars, rateVars, pipeVars, apiVars>>
\* a later poll of acquire_request_slot that finds _concurrent_requests
\* below the cap: the call takes the slot and runs up to
\* `await self.llm.ainvoke`.  (A poll that finds the cap reached sleeps
\* another 0.1 s and changes nothing.)
Acquire(agent) ==
    /\ BagIn(Coroutine(agent, 0, "wait"), coroutines)
    /\ acquire_request_slot
    /\ coroutines' = (coroutines (-) One(Coroutine(agent, 0, "wait")))
                         (+) One(Coroutine(agent, 0, "llm"))
    /\ UNCHANGED <<ret, todoVars, rateVars, pipeVars, apiVars>>

\* the LLM call of a call of `agent` ends, with an answer or an exception
Complete(agent) ==
    \E response \in {Raises, NotJson} :
        Return(Coroutine(agent, 0, "llm"), CHOOSE input \in AgentInputs(agent) : TRUE, response)

SlotNext ==
    \/ \E agent \in GatedAgents : Call(agent)
    \/ \E agent \in GatedAgents : Acquire(agent)
    \/ \E agent \in GatedAgents : Complete(agent)

-----------------------------------------------------------------------------
(* AI service: langraph_workflow.py, the full pipeline *)

\* state.get(key, {}) of the workflow state
StateGet(state, key) == Get(state, key, EmptyDict)

\* the errors channel is reduced with `add`; every other key is overwritten
Merge(state, update) ==
    [k \in DOMAIN state \cup DOMAIN update |->
        IF k \notin DOMAIN update THEN state[k]
        ELSE IF k = "errors" THEN state[k] \o update[k]
        ELSE update[k]]

NodeResult(key, r, label) ==
    IF r.raised THEN [errors |-> <<label>>] ELSE SetItem(EmptyDict, key, r.value)

parse_input(state, response) ==
    NodeResult("parsed_todo", parse(state["input_text"], response), "Parse error")

\* `if state.get("parsed_todo")` holds for a dict that is present and not empty
HasParsed(state) == DOMAIN StateGet(state, "parsed_todo") # {}

recommend_priority(state, response) ==
    IF HasParsed(state)
    THEN NodeResult("priority_recommendation",
                    recommend(state["parsed_todo"], response), "Priority error")
    ELSE EmptyDict

classify_category(state, response) ==
    IF HasParsed(state)
    THEN NodeResult("category_classification",
                    categorize(state["parsed_todo"], response), "Category error")
    ELSE EmptyDict

estimate_time(state, response) ==
    IF HasParsed(state)
    THEN NodeResult("time_estimation",
                    estimate(state["parsed_todo"], response), "Time error")
    ELSE EmptyDict

\* the aggregation threshold 0.7, in hundredths
ConfidenceThreshold == 70
AtLeastThreshold(confidence) == confidence >= ConfidenceThreshold
HighConfidence(confidence) == confidence > ConfidenceThreshold

Confidence(state, key) == Get(StateGet(state, key), "confidence", 0)

aggregate_results(state) ==
    LET rec == StateGet(state, "priority_recommendation")
        cls == StateGet(state, "category_classification")
        est == StateGet(state, "time_estimation")
        usePriority == HighConfidence(Confidence(state, "priority_recommendation"))
        useCategory == HighConfidence(Confidence(state, "category_classification"))
        useTime == HighConfidence(Confidence(state, "time_estimation"))
        \* a key that is read with [] and is missing raises KeyError
        keyError ==
            \/ usePriority /\ ~({"recommended_priority", "reasoning"} \subseteq DOMAIN rec)
            \/ useCategory /\ "category" \notin DOMAIN cls
            \/ useTime /\ "estimated_minutes" \notin DOMAIN est
        f0 == StateGet(state, "parsed_todo")
        f1 == IF usePriority
              THEN SetItem(SetItem(f0, "priority", rec["recommended_priority"]),
                           "priority_reasoning", rec["reasoning"])
              ELSE f0
        f2 == IF useCategory THEN SetItem(f1, "category", cls["category"]) ELSE f1
        f3 == IF useTime
              THEN SetItem(SetItem(f2, "estimated_time", est["estimated_minutes"]),
                           "time_suggestion", Get(est, "suggestion", None))
              ELSE f2
        f4 == SetItem(f3, "ai_metadata",
                  [priority_confidence |-> Confidence(state, "priority_recommendation"),
                   category_confidence |-> Confidence(state, "category_classification"),
                   time_confidence |-> Confidence(state, "time_estimation"),
                   processed |-> TRUE])
    IN IF keyError THEN [errors |-> <<"Aggregation error">>]
       ELSE [final_todo |-> f4]

SuggestionNodes == {"recommend_priority", "classify_category", "estimate_time"}

NodeResponses(node) ==
    CASE node = "recommend_priority" -> RecommendResponses
      [] node = "classify_category" -> CategorizeResponses
      [] node = "estimate_time" -> EstimateResponses

RunNode(node, state, response) ==
    CASE node = "recommend_priority" -> recommend_priority(state, response)
      [] node = "classify_category" -> classify_category(state, response)
      [] node = "estimate_time" -> estimate_time(state, response)

\* validate_todo_data(todo_data): it raises HTTPException(422), or returns
\* the dict with title and description sanitized
validate_todo_data(todo_data) ==
    LET hasTitle == "title" \in DOMAIN todo_data /\ todo_data["title"] # <<>>
        title == IF hasTitle
                 THEN Val(sanitize_string(Some(todo_data["title"]), 255))
                 ELSE <<>>
        hasDescription == "description" \in DOMAIN todo_data
                          /\ todo_data["description"] # <<>>
        d1 == IF hasTitle THEN SetItem(todo_data, "title", title) ELSE todo_data
        d2 == IF hasDescription
              THEN SetItem(d1, "description",
                           Val(sanitize_string(Some(todo_data["description"]), 2000)))
              ELSE d1
        invalid ==
            \/ hasTitle /\ title = <<>>
            \/ /\ "category" \in DOMAIN todo_data /\ todo_data["category"] # ""
               /\ todo_data["category"] \notin allowed_categories
            \/ /\ "priority" \in DOMAIN todo_data
               /\ (todo_data["priority"] < 1 \/ todo_data["priority"] > 5)
            \/ /\ "estimated_time" \in DOMAIN todo_data
               /\ (todo_data["estimated_time"] < 0 \/ todo_data["estimated_time"] > 1440)
    IN IF invalid THEN [raised |-> TRUE] ELSE [raised |-> FALSE, value |-> d2]

\* ParseRequest: text of 1 to 500 characters
ParseTextMaxLength == 500
ParseRequest(text) == Len(text) >= 1 /\ Len(text) <= ParseTextMaxLength

\* the initial_state POST /ai/parse gives to the workflow
initial_state(sanitized_text) ==
    [input_text |-> sanitized_text, parsed_todo |-> EmptyDict,
     priority_recommendation |-> EmptyDict, category_classification |-> EmptyDict,
     time_estimation |-> EmptyDict, final_todo |-> EmptyDict, errors |-> <<>>]

\* the nodes that are due once `node` of the pending suggestion nodes has run:
\* aggregate_results follows the step in which the three suggestion nodes run
Due_NoJoin(pending, node) == (pending \ {node}) \cup {"aggregate_results"}
Due(pending, node) ==
    IF pending = {node} THEN {"aggregate_results"} ELSE pending \ {node}

PipeInit ==
    /\ wf = [errors |-> <<>>]
    /\ wf_next = {}
    /\ wf_trace = <<>>
    /\ ai_resp = [text |-> <<>>, code |-> 0]

\* todo_processing_workflow.ainvoke(initial_state)
Invoke(input_text) ==
    /\ wf' = initial_state(input_text)
    /\ wf_next' = {"parse_input"}
    /\ wf_trace' = <<>>

\* POST /ai/parse up to the workflow's start: 422 for a text the schema
\* rejects or that is empty once sanitized
PostParse(text) ==
    /\ wf_next = {}
    /\ IF ~ParseRequest(text) \/ Val(sanitize_string(Some(text), ParseTextMaxLength)) = <<>>
       THEN /\ ai_resp' = [text |-> text, code |-> 422]
            /\ wf' = [errors |-> <<>>]
            /\ wf_next' = {}
            /\ wf_trace' = <<>>
       ELSE /\ ai_resp' = [text |-> text, code |-> 0]
            /\ Invoke(Val(sanitize_string(Some(text), ParseTextMaxLength)))
    /\ UNCHANGED <<todoVars, rateVars, agentVars, apiVars>>

ParseInput(response) ==
    /\ "parse_input" \in wf_next
    /\ wf' = Merge(wf, parse_input(wf, response))
    /\ wf_next' = SuggestionNodes
    /\ wf_trace' = Append(wf_trace, [node |-> "parse_input", llm |-> response.kind])
    /\ UNCHANGED <<ai_resp, todoVars, rateVars, agentVars, apiVars>>

\* the three suggestion nodes run side by side; aggregate_results follows them
Suggest(node, response) ==
    /\ node \in wf_next
    /\ wf' = Merge(wf, RunNode(node, wf, response))
    /\ wf_next' = Due(wf_next, node)
    /\ wf_trace' = Append(wf_trace, [node |-> node, llm |-> response.kind])
    /\ UNCHANGED <<ai_resp, todoVars, rateVars, agentVars, apiVars>>

Aggregate ==
    /\ "aggregate_results" \in wf_next
    /\ wf' = Merge(wf, aggregate_results(wf))
    /\ wf_next' = {"END"}
    /\ wf_trace' = Append(wf_trace, [node |-> "aggregate_results", llm |-> "none"])
    /\ UNCHANGED <<ai_resp, todoVars, rateVars, agentVars, apiVars>>

\* POST /ai/parse after the workflow's end: the final task is validated and
\* the response sent
ParseRespond ==
    /\ wf_next = {"END"}
    /\ LET final == wf["final_todo"]
           v == IF DOMAIN final # {} THEN validate_todo_data(final)
                ELSE [raised |-> FALSE, value |-> final]
       IN ai_resp' = IF v.raised
                     THEN [text |-> ai_resp.text, code |-> 422]
                     ELSE [text |-> ai_resp.text, code |-> 200,
                           body |-> [success |-> TRUE, todo |-> v.value,
                                     errors |-> wf["errors"]]]
    /\ wf_next' = {}
    /\ UNCHANGED <<wf, wf_trace, todoVars, rateVars, agentVars, apiVars>>

ParseTexts == {<<>>, <<" ">>, ShortText, <<"o", "o", "n", "x", "=", "n", "x", " ", "=">>}

\* responses of the parser's LLM call in the pipeline: also a category that
\* is empty, and one outside the allow-list
PipelineParseResponses ==
    ParseResponses \cup {Json([title |-> ReportTitle, category |-> ""]),
                         Json([title |-> ReportTitle, category |-> "Hobby"])}

PipeNext ==
    \/ \E text \in ParseTexts : PostParse(text)
    \/ \E response \in PipelineParseResponses : ParseInput(response)
    \/ \E node \in SuggestionNodes : \E response \in NodeResponses(node) :
         Suggest(node, response)
    \/ Aggregate
    \/ ParseRespond

-----------------------------------------------------------------------------
(* Todo service: GET /todos.  A row of the listing is one row of the todos  *)
(* table with the columns the query reads; created_at is the row's position *)
(* in list_db.                                                              *)

MaxListed == 3
PageSizeMax == 100

\* the filtered query of get_todos and get_todos_count: the positions of the
\* rows that pass the filters; a filter that is None or falsy is not applied
Filtered(db, status, category, priority) ==
    {i \in DOMAIN db :
        /\ (status # None /\ Val(status) # "") => db[i].status = Val(status)
        /\ (category # None /\ Val(category) # <<>>) => db[i].category = category
        /\ (priority # None /\ Val(priority) # 0) => db[i].priority = Val(priority)}

\* the attributes of the class models.Todo: its columns, and the others
\* that models.py gives it
TodoColumns ==
    {"id", "title", "description", "status", "priority", "category", "estimated_time",
     "ai_metadata", "created_at", "updated_at"}
TodoNonColumns == {"to_dict", "__tablename__"}

\* getattr(models.Todo, sort_by, "created_at"): the column of that name; for
\* a name the class does not have, the string "created_at", which desc() and
\* asc() take as the name of the column; for another attribute of the class
\* that attribute, which is nothing desc() or asc() can order by (None here)
SortAttribute(sort_by) ==
    IF sort_by \in TodoColumns THEN Some(sort_by)
    ELSE IF sort_by \in TodoNonColumns THEN None
    ELSE Some("created_at")

\* order_by: the orders the database may return the rows in; rows with equal
\* keys come in any order.  The listings of the model are sorted by priority
\* or by created_at
order_by(db, rows, sort_by, order) ==
    LET key(i) == IF SortAttribute(sort_by) = Some("priority") THEN db[i].priority ELSE i
    IN {s \in [1..Cardinality(rows) -> rows] :
          /\ \A i, j \in DOMAIN s : i # j => s[i] # s[j]
          /\ \A i, j \in DOMAIN s : i < j =>
               IF order = "desc" THEN key(s[i]) >= key(s[j]) ELSE key(s[i]) <= key(s[j])}

\* crud.get_todos: the lists of rows that query.offset(skip).limit(limit).all()
\* may return
crud_get_todos(db, skip, limit, status, category, priority, sort_by, order) ==
    {SubSeq(s, skip + 1, IF Len(s) <= skip + limit THEN Len(s) ELSE skip + limit) :
        s \in order_by(db, Filtered(db, status, category, priority), sort_by, order)}

crud_get_todos_count(db, status, category, priority) ==
    Cardinality(Filtered(db, status, category, priority))

\* the Query(...) constraints of the parameters of GET /todos
ListQueryOk(q) ==
    /\ q.page >= 1
    /\ q.page_size >= 1 /\ q.page_size <= PageSizeMax
    /\ q.priority # None => (Val(q.priority) >= 1 /\ Val(q.priority) <= 5)
    /\ q.order \in {"asc", "desc"}

\* a handler that skips page * page_size rows
Skip_FromPageOne(q) == q.page * q.page_size
Skip(q) == (q.page - 1) * q.page_size

\* GET /todos: the responses the request may get
get_todos(db, q) ==
    IF ~ListQueryOk(q) THEN {[query |-> q, code |-> 422]}
    ELSE IF SortAttribute(q.sort_by) = None THEN {[query |-> q, code |-> 500]}
    ELSE {[query |-> q, code |-> 200,
           total |-> crud_get_todos_count(db, q.status, q.category, q.priority),
           items |-> items, page |-> q.page, page_size |-> q.page_size] :
          items \in crud_get_todos(db, Skip(q), q.page_size, q.status, q.category,
                                   q.priority, q.sort_by, q.order)}

\* the tables of the model: up to MaxListed rows of three kinds
ListStores ==
    LET rows == {[status |-> "TODO", priority |-> 2, category |-> None],
                 [status |-> "DONE", priority |-> 1, category |-> Some(<<"W">>)],
                 [status |-> "DONE", priority |-> 2, category |-> Some(<<"W">>)]}
    IN UNION {[1..n -> rows] : n \in 0..MaxListed}

\* the queries of the model: every page of one or two rows under the status
\* and priority filters and both sort keys, and single queries at the edges
\* of the parameters' ranges, with a category filter and with sort keys that
\* are not columns
ListQueries ==
    LET default == [page |-> 1, page_size |-> 20, status |-> None, category |-> None,
                    priority |-> None, sort_by |-> "created_at", order |-> "desc"]
    IN [page : 1..3, page_size : {1, 2}, status : {None, Some("DONE")},
        category : {None}, priority : {None, Some(2)},
        sort_by : {"created_at", "priority"}, order : {"asc", "desc"}]
       \cup {default,
             [default EXCEPT !.page = 0],
             [default EXCEPT !.page_size = 0],
             [default EXCEPT !.page_size = PageSizeMax],
             [default EXCEPT !.page_size = PageSizeMax + 1],
             [default EXCEPT !.category = Some(<<"W">>), !.page_size = 1],
             [default EXCEPT !.sort_by = "unknown", !.page_size = 2],
             [default EXCEPT !.sort_by = "unknown", !.order = "asc"],
             [default EXCEPT !.sort_by = "to_dict", !.page_size = 2],
             [default EXCEPT !.sort_by = "__tablename__", !.order = "asc"]}

\* no request of these routes was made yet; the table is db
ApiInit(db) ==
    /\ list_db = db
    /\ list_resp = [query |-> None, code |-> 0]
    /\ batch_resp = [todos |-> <<>>, llm |-> "none", out |-> [code |-> 0]]
    /\ sanitized = [text |-> None, out |-> None]
    /\ suggest_resp = [path |-> "none", todo |-> EmptyDict, todo_data |-> None, code |-> 0]
    /\ stats_resp = [code |-> 0]

ListTodos(q) ==
    /\ list_resp' \in get_todos(list_db, q)
    /\ UNCHANGED <<list_db, batch_resp, sanitized, suggest_resp, stats_resp>>
    /\ UNCHANGED <<todoVars, rateVars, agentVars, pipeVars>>

-----------------------------------------------------------------------------
(* Todo service: GET /todos/stats/summary.  Rates are kept in hundredths of *)
(* a percent: 66.67 is 6667.                                                *)

MaxStatRows == 4

\* a rounding that drops the digits after the second decimal
round_2_Floor(n, d) == (n * 10000) \div d

\* round(n / d * 100, 2): the nearest multiple of 0.01, the even one of two
\* that are equally near
round_2(n, d) ==
    LET q == (n * 10000) \div d
        r == (n * 10000) % d
    IN IF 2 * r > d \/ (2 * r = d /\ q % 2 = 1) THEN q + 1 ELSE q

\* db.query(models.Todo).filter(models.Todo.status == status).count()
count_by_status(db, status) == Cardinality({i \in DOMAIN db : db[i].status = status})

get_todo_stats(db) ==
    LET total == Len(db)
        done_count == count_by_status(db, "DONE")
    IN [code |-> 200,
        total |-> total,
        by_status |-> [s \in TodoStatus |-> count_by_status(db, s)],
        completion_rate |-> IF total > 0 THEN round_2(done_count, total) ELSE 0]

\* the tables of the model: up to MaxStatRows rows of any status
StatStores ==
    UNION {[1..n -> [status : TodoStatus, priority : {3}, category : {None}]] :
              n \in 0..MaxStatRows}

GetStats ==
    /\ stats_resp' = get_todo_stats(list_db)
    /\ UNCHANGED <<list_db, list_resp, batch_resp, sanitized, suggest_resp>>
    /\ UNCHANGED <<todoVars, rateVars, agentVars, pipeVars>>

-----------------------------------------------------------------------------
(* AI service: POST /ai/analyze-batch.  An item of the request is a JSON    *)
(* object of any shape (List[Dict[str, Any]]); the model keeps the JSON type *)
(* of its title beside the dict of its other fields.                        *)

MaxBatchItems == 3
BatchSizeMax == 100

\* validate_todo_data(dict(todo)) for one item: it returns the dict, raises
\* HTTPException(422), or, for a title that is a number, raises TypeError in
\* sanitize_string at text[:max_length]
validate_item(item) ==
    IF item.title_type = "number" THEN [raised |-> "TypeError"]
    ELSE LET v == validate_todo_data(item.dict)
         IN IF v.raised THEN [raised |-> "HTTPException"]
            ELSE [raised |-> "no", value |-> v.value]

\* POST /ai/analyze-batch with the LLM answering `response`
analyze_batch(batch, response) ==
    IF Len(batch) > BatchSizeMax \/ Len(batch) = 0
    THEN [code |-> 422, llm_called |-> FALSE]
    ELSE The({IF \E i \in DOMAIN checked : checked[i].raised = "TypeError"
              THEN [code |-> 500, llm_called |-> FALSE]
              ELSE The({[code |-> 200, llm_called |-> TRUE,
                         body |-> [success |-> TRUE,
                                   analysis |-> analyze(validated_todos, response).value,
                                   todo_count |-> Len(validated_todos),
                                   original_count |-> Len(batch)]] :
                        validated_todos \in
                          {SelectSeq(checked, LAMBDA r : r.raised = "no")}}) :
              checked \in {[i \in DOMAIN batch |-> validate_item(batch[i])]}})

\* the batches of the model: up to MaxBatchItems items, each a valid task, a
\* category outside the allow-list, a priority of 6, a title that is empty
\* once sanitized, or a title that is a number; and 100 and 101 valid items
Batches ==
    LET items ==
            {[title_type |-> "string", dict |-> [title |-> <<"a">>, priority |-> 2]],
             [title_type |-> "string", dict |-> [title |-> <<"a">>, category |-> "Hobby"]],
             [title_type |-> "string", dict |-> [title |-> <<"a">>, priority |-> 6]],
             [title_type |-> "string", dict |-> [title |-> <<"o", "n", "x", "=">>]],
             [title_type |-> "number", dict |-> [priority |-> 2]]}
    IN UNION {[1..n -> items] : n \in 0..MaxBatchItems}
       \cup {[i \in 1..n |-> [title_type |-> "string", dict |-> [title |-> <<"a">>]]] :
               n \in {BatchSizeMax, BatchSizeMax + 1}}

AnalyzeBatch(batch, response) ==
    /\ batch_resp' = [todos |-> batch, llm |-> response.kind,
                      out |-> analyze_batch(batch, response)]
    /\ UNCHANGED <<list_db, list_resp, sanitized, suggest_resp, stats_resp>>
    /\ UNCHANGED <<todoVars, rateVars, agentVars, pipeVars>>

-----------------------------------------------------------------------------
(* AI service: POST /ai/recommend-priority, /ai/categorize and             *)
(* /ai/estimate-time.  request.todo.dict() is modelled by the record of the *)
(* fields that are not None: validate_todo_data and the agents treat a key  *)
(* that holds None like a key that is absent.                               *)

SuggestPaths == {"/ai/recommend-priority", "/ai/categorize", "/ai/estimate-time"}

\* the three handlers: the status of the answer, and the todo_data of the
\* initial_state given to the route's workflow (None when none is invoked).
\* The agents return a fallback when the LLM call fails, so an invoked
\* workflow is answered 200.
suggest(path, todo, response) ==
    IF path = "/ai/recommend-priority"
    THEN LET checked == validate_todo_data(todo)
         IN IF checked.raised THEN [code |-> 422, todo_data |-> None]
            ELSE IF recommend(checked.value, response).raised
            THEN [code |-> 500, todo_data |-> Some(checked.value)]
            ELSE [code |-> 200, todo_data |-> Some(checked.value)]
    ELSE LET result == IF path = "/ai/categorize" THEN categorize(todo, response)
                       ELSE estimate(todo, response)
         IN [code |-> IF result.raised THEN 500 ELSE 200, todo_data |-> Some(todo)]

\* TodoData payloads: titles of 1 to 255 characters, plain or with markup;
\* a description, a category and an estimated_time that are absent, valid or not
SuggestTodos ==
    LET opt(k, S) == {EmptyDict} \cup {SetItem(EmptyDict, k, v) : v \in S}
        join(a, b) == [x \in DOMAIN a \cup DOMAIN b |-> IF x \in DOMAIN a THEN a[x] ELSE b[x]]
    IN {join(join([title |-> t], d), join(c, e)) :
           t \in {<<"a">>, <<"a", "&">>, <<"o", "n", "x", "=">>},
           d \in opt("description", {<<"<", "b", ">">>}),
           c \in opt("category", {"Work", "Hobby"}),
           e \in opt("estimated_time", {30, 1441})}

PostSuggestion(path, todo, response) ==
    /\ suggest_resp' = [path |-> path, todo |-> todo] @@ suggest(path, todo, response)
    /\ UNCHANGED <<list_db, list_resp, batch_resp, sanitized, stats_resp>>
    /\ UNCHANGED <<todoVars, rateVars, agentVars, pipeVars>>

-----------------------------------------------------------------------------
(* sanitize_string on its own: the texts are built from fragments of markup *)

MaxFragments == 3

RECURSIVE Concat(_)
Concat(parts) == IF parts = <<>> THEN <<>> ELSE Head(parts) \o Concat(Tail(parts))

\* the texts of the model: up to MaxFragments fragments, one after another
SanitizeTexts ==
    LET fragments ==
            {<<"o">>, <<"O", "N", "x", "=">>, <<"n", "x", "=">>,
             <<"j", "a", "v", "a">>, <<"s", "c", "r", "i", "p", "t", ":">>,
             <<"<", "s", "c", "r", "i", "p", "t", ">">>, <<"&">>, <<"\"">>}
    IN {Concat(parts) : parts \in UNION {[1..n -> fragments] : n \in 0..MaxFragments}}

\* sanitize_string(text) with the default max_length
Sanitize(text) ==
    /\ sanitized' = [text |-> Some(text), out |-> sanitize_string(Some(text), 1000)]
    /\ UNCHANGED <<list_db, list_resp, batch_resp, suggest_resp, stats_resp>>
    /\ UNCHANGED <<todoVars, rateVars, agentVars, pipeVars>>

-----------------------------------------------------------------------------
(* Specifications *)

vars == <<todoVars, rateVars, agentVars, pipeVars, apiVars>>

\* every specification starts from the state after start-up of both services
Init == TodoInit /\ RateInit /\ AgentInit /\ PipeInit /\ ApiInit(<<>>)

TodoServiceInit == Init /\ service = "todo"
AiServiceInit == Init /\ service = "ai"

SpecTodo == TodoServiceInit /\ [][TodoNext]_vars

SpecLimits == TodoServiceInit /\ [][LimitNext]_vars

SpecClock == TodoServiceInit /\ [][ClockNext]_vars

SpecSession == TodoServiceInit /\ [][SessionNext]_vars

SpecRace == TodoServiceInit /\ [][RaceNext]_vars

SpecRate == Init /\ [][RateNext]_vars

SpecAgent == AiServiceInit /\ [][AgentNext]_vars

\* the event loop resumes every coroutine that can run: a call whose LLM
\* call has ended, and a waiting call at a time when a slot stays free.  A
\* waiting call polls every 0.1 s; nothing makes a poll fall into a moment
\* at which a slot is free when slots are taken again in between
SpecSlots ==
    /\ AiServiceInit /\ [][SlotNext]_vars
    /\ \A agent \in GatedAgents : WF_vars(Complete(agent)) /\ WF_vars(Acquire(agent))

\* the Todo service with any table of up to MaxListed rows
ListServiceInit ==
    /\ TodoInit /\ RateInit /\ AgentInit /\ PipeInit /\ service = "todo"
    /\ \E db \in ListStores : ApiInit(db)

SpecList == ListServiceInit /\ [][\E q \in ListQueries : ListTodos(q)]_vars

SpecBatch ==
    AiServiceInit
    /\ [][\E batch \in Batches, response \in AnalyzeResponses :
             AnalyzeBatch(batch, response)]_vars

\* the Todo service with any table of up to MaxStatRows rows
StatsServiceInit ==
    /\ TodoInit /\ RateInit /\ AgentInit /\ PipeInit /\ service = "todo"
    /\ \E db \in StatStores : ApiInit(db)

SpecStats == StatsServiceInit /\ [][GetStats]_vars

SpecSuggest ==
    AiServiceInit
    /\ [][\E path \in SuggestPaths, todo \in SuggestTodos, response \in {Raises, NotJson} :
             PostSuggestion(path, todo, response)]_vars

SpecSanitize == TodoServiceInit /\ [][\E text \in SanitizeTexts : Sanitize(text)]_vars

SpecPipeline == AiServiceInit /\ [][PipeNext]_vars

\* the event loop runs every scheduled step of the workflow and the handler
SpecPipelineFair == AiServiceInit /\ [][PipeNext]_vars /\ WF_vars(PipeNext)

-----------------------------------------------------------------------------
(* Claims about the Todo service, checked under SpecTodo *)

Stored == {id \in TodoIds : todos[id] # None}
Row(id) == Val(todos[id])

\* C1: No stale cache: for any sequence of create / PUT / PATCH-status /
\* DELETE / GET requests run one after another, the cached snapshot of a task,
\* if any, always equals the stored record, so a GET after an update returns
\* the values now committed.
C1_NoStaleCache ==
    \A id \in TodoIds :
        redis_cache[id] # None =>
            /\ todos[id] # None
            /\ Val(redis_cache[id]) = to_dict(Row(id))

\* the response code of a request when no Redis command fails
PostCode(b) == create_todo(todos, nextId, b, Redis, {}).code
GetCode(id) == get_todo(todos, id, Redis, {}).code
PutCode(id, b) == update_todo(todos, id, b, Redis, {}).code
PatchCode(id, s) == update_todo_status(todos, id, s, Redis, {}).code
DeleteCode(id) == delete_todo(todos, id, Redis, {}).code

\* C2: Cache failures never fail the primary operation: whichever Redis
\* commands raise during create, update, status update, delete or GET-by-id,
\* the request is answered with the code it has when Redis works
\* (201/200/204, or 404 when the row is absent).
C2_CacheFailureSwallowed ==
    [][\A F \in FaultChoices :
        /\ \A b \in PostBodies : PostTodo(b, F) => resp'.code = PostCode(b)
        /\ \A id \in TodoIds :
            /\ GetTodo(id, F) => resp'.code = GetCode(id)
            /\ DeleteTodo(id, F) => resp'.code = DeleteCode(id)
            /\ \A b \in PutBodies : PutTodo(id, b, F) => resp'.code = PutCode(id, b)
            /\ \A s \in StatusInputs :
                  PatchStatus(id, s, F) => resp'.code = PatchCode(id, s)]_vars

\* a creation body that passes the schema but whose title is empty after
\* sanitization or whose category is outside the allow-list
InvalidCreate(b) ==
    /\ TodoBase(b)
    /\ \/ Val(sanitize_string(b.title, 255)) = <<>>
       \/ /\ "category" \in DOMAIN b /\ b.category # None /\ Val(b.category) # ""
          /\ Val(b.category) \notin allowed_categories

\* C3: POST /todos with a title that is empty after sanitization, or with a
\* category outside the allow-list, is answered with 422 (not 500), and the
\* table and the cache are unchanged.
C3_InvalidCreateIs422 ==
    [][\A b \in PostBodies, F \in FaultChoices :
        (PostTodo(b, F) /\ InvalidCreate(b)) =>
            /\ resp'.code = 422
            /\ todos' = todos
            /\ redis_cache' = redis_cache
            /\ redis_tags' = redis_tags]_vars

\* C4: after any sequence of operations every stored task has estimated_time
\* absent or in 0..1440 (POST and PUT both reject 1441 and negative values).
C4_EstimatedTimeBound ==
    \A id \in Stored :
        Row(id).estimated_time # None =>
            /\ Val(Row(id).estimated_time) >= 0
            /\ Val(Row(id).estimated_time) <= 1440

\* the body supplies a priority (not null)
HasPriority(b) == "priority" \in DOMAIN b /\ b.priority # None

\* C5: POST /todos and PUT /todos/{id} accept priority 1 and 5 and reject 0
\* and 6 with 422, and every stored task has its priority in 1..5.
C5_PriorityBound ==
    /\ \A id \in Stored : Row(id).priority # None /\ Val(Row(id).priority) \in 1..5
    /\ (resp.op \in {"POST", "PUT"} /\ HasPriority(resp.req)) =>
          /\ Val(resp.req.priority) \in {0, 6} => resp.code = 422
          /\ Val(resp.req.priority) \in {1, 5} =>
                /\ resp.code # 422
                /\ resp.op = "POST" => resp.code = 201
                /\ resp.code \in {200, 201} =>
                      /\ Val(resp.body).priority = resp.req.priority
                      /\ Row(resp.id).priority = resp.req.priority

\* a PUT and a POST with a boundary priority were accepted and stored it
C5_Witness ==
    /\ resp.op = "PUT" /\ resp.code = 200
    /\ Val(resp.body).priority = Some(5)
    /\ \E id \in Stored : Row(id).priority = Some(1)

-----------------------------------------------------------------------------
(* Claims about the rate limiter, checked under SpecRate *)

\* the per-service limit N
Limit == IF service = "ai" THEN 60 ELSE 100

\* how many times the time u is recorded in the list `times`
Count(times, u) == Cardinality({i \in DOMAIN times : times[i] = u})

\* the requests client ip was let through in the 60 seconds that end at t
Admitted(ip, t) == InWindow(admitted_log[ip], t)

\* C6: Sliding-window rate limit: for each client IP and the service's limit
\* N (60 AI, 100 Todo), a non-health request is rejected with 429 exactly when
\* N requests of that IP were already admitted in the 60 seconds before it, so
\* the first N in any window pass and the next is rejected; a request to the
\* health path is never rejected and never counted.
C6_SlidingWindow ==
    /\ \A ip \in ClientIps :
          /\ Admitted(ip, now) <= Limit
          /\ \A i \in DOMAIN request_counts[ip] :
                request_counts[ip][i] \in DOMAIN admitted_log[ip]
          /\ \A u \in DOMAIN admitted_log[ip] :
                now - u < 60 => Count(request_counts[ip], u) = admitted_log[ip][u]
    /\ rl.code = 429 => rl.path # "/health" /\ Admitted(rl.ip, rl.time) = Limit
    /\ (rl.code = 200 /\ rl.path = "/work") =>
          /\ rl.time \in DOMAIN admitted_log[rl.ip]
          /\ Admitted(rl.ip, rl.time) <= Limit
    /\ rl.path = "/health" => rl.code = 200

\* the Todo service rejects the 101st request of a client whose window holds
\* requests made 59 seconds ago and requests made now
C6_Witness ==
    /\ service = "todo" /\ rl.code = 429 /\ rl.ip = "a" /\ rl.time = 59
    /\ Len(request_counts["a"]) = 100
    /\ request_counts["a"][1] = 0 /\ request_counts["a"][100] = 59

-----------------------------------------------------------------------------
(* Claims about the agents, checked under SpecAgent *)

LlmFailed(response) == response.kind \in {"raises", "text"}

\* C7: The structured agents never raise to their caller: when the LLM call
\* raises or its content is not JSON, Parse returns {title: input cut to 255
\* characters, description: absent, priority: 3, category: "gita" (the Korean
\* "other"), estimated_time: 30}, RecommendPriority returns the task's
\* current priority with confidence 0.3, Categorize returns "gita" with
\* confidence 0.3, EstimateTime returns 30 minutes with confidence 0.3.
C7_AgentsNeverRaise ==
    ret.agent \in GatedAgents =>
        /\ ~ret.raised
        /\ (ret.agent = "parse" /\ LlmFailed(ret.response)) =>
              /\ ret.value = [title |-> ret.value.title, description |-> None,
                              priority |-> 3, category |-> "gita",
                              estimated_time |-> 30]
              /\ Len(ret.value.title) = (IF Len(ret.input) < 255 THEN Len(ret.input) ELSE 255)
              /\ \A i \in 1..Len(ret.value.title) : ret.value.title[i] = ret.input[i]
        /\ (ret.agent = "recommend" /\ LlmFailed(ret.response)) =>
              /\ ret.value.confidence = 30
              /\ "priority" \in DOMAIN ret.input =>
                    ret.value.recommended_priority = ret.input.priority
        /\ (ret.agent = "categorize" /\ LlmFailed(ret.response)) =>
              ret.value.category = "gita" /\ ret.value.confidence = 30
        /\ (ret.agent = "estimate" /\ LlmFailed(ret.response)) =>
              ret.value.estimated_minutes = 30 /\ ret.value.confidence = 30

\* Parse was given 256 characters, the LLM's content was not JSON, and the
\* caller got the fallback draft with a title of 255 characters
C7_Witness ==
    /\ ret.agent = "parse" /\ ret.response.kind = "text"
    /\ Len(ret.input) = 256 /\ ~ret.raised
    /\ Len(ret.value.title) = 255 /\ ret.value.priority = 3

\* C8: Application-level retry of the non-batch agents: an operation whose LLM
\* call fails is attempted again (with exponential backoff), gives up after 3
\* attempts and re-raises the final failure; so a call that ended on a failed
\* LLM call has made 3 attempts and has raised to its caller.
C8_RetryThenReraise ==
    (ret.agent \in GatedAgents /\ ret.response.kind = "raises") =>
        ret.attempts = 3 /\ ret.raised

\* C9: Admission cap on LLM calls: under any interleaving of calls of all the
\* agents, the batch analysis included, at most 10 LLM calls are in flight.
C9_AdmissionCap == InFlightLLMCalls <= 10

-----------------------------------------------------------------------------
(* Claims about the full pipeline, checked under SpecPipeline *)

Final == wf["final_todo"]
Parsed == wf["parsed_todo"]

\* the final task's field f is the suggestion's value v when the suggestion's
\* confidence is above 0.7 (70 hundredths), and the parsed draft's otherwise
Decided(f, suggestion, v) ==
    Final[f] = IF wf[suggestion].confidence > 70 THEN wf[suggestion][v] ELSE Parsed[f]

\* C10: Aggregation threshold is strict and per field: the final task's
\* priority (category, estimated_time) is the suggestion's value if and only
\* if that suggestion's confidence is strictly greater than 0.7 (applied at
\* 0.71, not at 0.70), and the parsed draft's value otherwise, whatever the
\* other two suggestions are.
C10_StrictThreshold ==
    ("final_todo" \in DOMAIN wf /\ DOMAIN wf["final_todo"] # {}) =>
        /\ Decided("priority", "priority_recommendation", "recommended_priority")
        /\ Decided("category", "category_classification", "category")
        /\ Decided("estimated_time", "time_estimation", "estimated_minutes")

\* a run whose priority suggestion had confidence 0.71 and was applied while
\* the category and time suggestions had 0.70 and were not
C10_Witness ==
    /\ "final_todo" \in DOMAIN wf /\ DOMAIN wf["final_todo"] # {}
    /\ wf["priority_recommendation"].confidence = 71
    /\ wf["category_classification"].confidence = 70
    /\ wf["time_estimation"].confidence = 70
    /\ Parsed["priority"] = 2 /\ Final["priority"] = 5
    /\ wf["category_classification"].category = "Health" /\ Final["category"] = "Work"
    /\ wf["time_estimation"].estimated_minutes = 120 /\ Final["estimated_time"] = 45

\* the positions of the current request's trace at which `node` ran
RunsOf(node) == {i \in DOMAIN wf_trace : wf_trace[i].node = node}

Joined ==
    /\ Len(wf_trace) <= 5
    /\ \A i \in RunsOf("aggregate_results") :
         /\ i = 5
         /\ RunsOf("parse_input") = {1}
         /\ \A node \in SuggestionNodes :
              Cardinality(RunsOf(node)) = 1 /\ RunsOf(node) \subseteq 2..4
    /\ wf_next = {"END"} => RunsOf("aggregate_results") = {5}

\* C11: Join semantics of the full pipeline: in every execution the aggregate
\* step runs exactly once, and only after parse has finished and each of the
\* three branch steps has completed, in whatever order the branches run; the
\* workflow then terminates.
C11_JoinThenTerminate ==
    /\ []Joined
    /\ (wf_next = {"parse_input"}) ~> (wf_next = {"END"})

\* a terminated run whose branches ran in the order estimate_time,
\* classify_category, recommend_priority, one of them with a failed LLM call
C11_Witness ==
    /\ wf_next = {"END"}
    /\ Len(wf_trace) = 5
    /\ wf_trace[2].node = "estimate_time" /\ wf_trace[2].llm = "raises"
    /\ wf_trace[3].node = "classify_category"
    /\ wf_trace[4].node = "recommend_priority"
    /\ wf_trace[5].node = "aggregate_results"

\* the suggestion nodes whose LLM call failed in the current request
FailedSteps ==
    {wf_trace[i].node : i \in {j \in DOMAIN wf_trace :
        wf_trace[j].node \in SuggestionNodes /\ wf_trace[j].llm = "raises"}}

-----------------------------------------------------------------------------
(* Claims about POST /ai/parse, checked under SpecPipeline *)

\* the current request's workflow has run and the request has its response
Responded == Len(wf_trace) = 5 /\ ai_resp.code # 0

\* every LLM call of the current request failed
AllLlmFailed == Len(wf_trace) = 5 /\ \A i \in 1..4 : wf_trace[i].llm = "raises"

\* C13: Upstream AI failure is never surfaced by /ai/parse: when every LLM
\* call fails, a request with non-empty sanitized text is answered 200 with
\* success true, a todo equal to the parse fallback draft (priority 3,
\* category "gita", estimated_time 30) with no suggestion applied, and
\* ai_metadata recording confidence 0.3 for the three suggestions.
C13_FallbackDraftIs200 ==
    (Responded /\ AllLlmFailed) =>
        /\ ai_resp.code = 200
        /\ ai_resp.body.success
        /\ ai_resp.body.todo.priority = 3
        /\ ai_resp.body.todo.category = Gita
        /\ ai_resp.body.todo.estimated_time = 30
        /\ ai_resp.body.todo.ai_metadata.priority_confidence = 30
        /\ ai_resp.body.todo.ai_metadata.category_confidence = 30
        /\ ai_resp.body.todo.ai_metadata.time_confidence = 30

\* the request's text is empty once sanitized (or is rejected by the schema)
EmptySanitizedText ==
    \/ ~ParseRequest(ai_resp.text)
    \/ Val(sanitize_string(Some(ai_resp.text), ParseTextMaxLength)) = <<>>

\* C14: Validation comes first and /ai/parse rejects only empty text: a
\* request answered with 422 has caused no LLM call, and the answer is 422
\* exactly when the sanitized text is empty, whatever the LLM returns.
C14_422OnlyForEmptyText ==
    /\ ai_resp.code = 422 => (wf_trace = <<>> /\ EmptySanitizedText)
    /\ ai_resp.code = 200 => ~EmptySanitizedText

\* C15: Parse output is well-formed: whenever POST /ai/parse returns a todo,
\* its priority is in 1..5, its category is in the allow-list and its
\* estimated_time is in 0..1440, for any text and any LLM responses.
C15_ParseOutputWellFormed ==
    (ai_resp.code = 200 /\ DOMAIN ai_resp.body.todo # {}) =>
        /\ ai_resp.body.todo.priority \in 1..5
        /\ ai_resp.body.todo.category \in allowed_categories
        /\ ai_resp.body.todo.estimated_time \in 0..1440

-----------------------------------------------------------------------------
(* Claims about the Todo service's routes, checked under SpecTodo *)

\* the last request was a successful create with only a title
CreatedTitleOnly ==
    resp.op = "POST" /\ resp.code = 201 /\ DOMAIN resp.req = {"title"}

RoundTripStored ==
    CreatedTitleOnly =>
        /\ resp.id \in Stored
        /\ Row(resp.id).status = "TODO"
        /\ Row(resp.id).priority = Some(3)
        /\ Row(resp.id).category = None
        /\ \A id \in Stored \ {resp.id} : id < resp.id
        /\ resp.body = Some(to_dict(Row(resp.id)))

\* a GET of the created id that follows the create, with the cache entry
\* kept or expired, answers with the create's values
RoundTripRead ==
    (CreatedTitleOnly /\ nreq' = nreq + 1 /\ resp'.op = "GET" /\ resp'.id = resp.id) =>
        /\ resp'.code \in {200, 500}
        /\ resp'.code = 200 => resp'.body = resp.body

\* C16: Create/read round trip: creating a task with only a title yields a
\* stored record with status TODO, priority 3, category absent and a fresh id
\* distinct from every existing id; a GET of that id, served from the cache or
\* from the store, returns the same field values.
C16_CreateReadRoundTrip == []RoundTripStored /\ [][RoundTripRead]_vars

\* a second task was created with only a title and then read back
C16_Witness ==
    /\ resp.op = "GET" /\ resp.code = 200 /\ resp.id = 2 /\ nreq = 3
    /\ Stored = {1, 2}
    /\ resp.body = Some(to_dict(Row(2)))
    /\ Row(2).status = "TODO" /\ Row(2).priority = Some(3) /\ Row(2).category = None
    /\ Row(2).description = None /\ Row(2).estimated_time = None

\* the step is a PATCH /todos/{id}/status request
PatchStep == nreq' = nreq + 1 /\ resp'.op = "PATCH"

\* the stored tasks after the status of task id was set
WithStatus(id, status) ==
    [todos EXCEPT ![id] = Some([Val(todos[id]) EXCEPT !.status = status])]

StatusUpdateOutcome ==
    PatchStep =>
        LET id == resp'.id
            status == Val(resp'.req)
        IN IF status \notin {"TODO", "DOING", "DONE"}
           THEN /\ resp'.code = 422
                /\ todos' = todos /\ redis_cache' = redis_cache
           ELSE IF todos[id] = None
           THEN resp'.code = 404 /\ todos' = todos
           ELSE /\ resp'.code \in {200, 500}
                /\ todos' = WithStatus(id, status)
                /\ resp'.code = 200 => resp'.body = Some(Val(todos'[id]))

\* C17: Status updates have no transition graph: PATCH /todos/{id}/status
\* with TODO, DOING or DONE succeeds from any prior status of an existing task
\* and sets exactly that status; a value outside the enumeration (CANCELLED)
\* is rejected with 422 and leaves the stored task and its cache entry
\* unchanged; an unknown id yields 404.
C17_NoTransitionGraph == [][StatusUpdateOutcome]_vars

\* the third request set a task back to TODO and was answered 200 with it
C17_Witness ==
    /\ resp.op = "PATCH" /\ resp.code = 200 /\ resp.req = Some("TODO") /\ nreq = 3
    /\ Row(resp.id).status = "TODO"
    /\ resp.body = Some(Row(resp.id))
    /\ redis_cache[resp.id] = Some(to_dict(Row(resp.id)))

-----------------------------------------------------------------------------
(* Claims about GET /todos, checked under SpecList *)

\* the rows of the table that match the filters of the last listing
Matching ==
    LET q == list_resp.query
    IN {i \in DOMAIN list_db :
          /\ q.status # None => list_db[i].status = Val(q.status)
          /\ q.category # None => list_db[i].category = q.category
          /\ q.priority # None => list_db[i].priority = Val(q.priority)}

Min(a, b) == IF a <= b THEN a ELSE b
Max(a, b) == IF a >= b THEN a ELSE b

\* C18: Pagination: for any number of stored tasks matching the filters and
\* any page >= 1 and page_size in 1..100, GET /todos returns total = the
\* number of matching tasks, whatever the page, and items = the matching tasks
\* at positions (page-1)*page_size+1 .. page*page_size of the requested sort
\* order, that is min(page_size, max(0, total-(page-1)*page_size)) items.
C18_Pagination ==
    list_resp.code # 0 =>
        LET q == list_resp.query
            first == (q.page - 1) * q.page_size
        IN (q.page >= 1 /\ q.page_size \in 1..100 /\ SortAttribute(q.sort_by) # None) =>
            /\ list_resp.code = 200
            /\ list_resp.total = Cardinality(Matching)
            /\ Len(list_resp.items) =
                 Min(q.page_size, Max(0, list_resp.total - first))
            /\ \E s \in order_by(list_db, Matching, q.sort_by, q.order) :
                 \A k \in DOMAIN list_resp.items : list_resp.items[k] = s[first + k]

\* the second page of two rows out of three rows that are DONE, by priority
C18_Witness ==
    /\ list_resp.code = 200
    /\ list_resp.query.page = 2 /\ list_resp.query.page_size = 1
    /\ list_resp.query.status = Some("DONE") /\ list_resp.query.sort_by = "priority"
    /\ list_resp.query.order = "asc"
    /\ Len(list_db) = 3
    /\ list_resp.total = 2
    /\ Len(list_resp.items) = 1
    /\ list_db[list_resp.items[1]].priority = 2

-----------------------------------------------------------------------------
(* Claims about POST /ai/analyze-batch, checked under SpecBatch *)

\* the items of the last batch that fail the validation of the task fields
InvalidItems ==
    {i \in DOMAIN batch_resp.todos :
        \/ batch_resp.todos[i].title_type # "string"
        \/ validate_todo_data(batch_resp.todos[i].dict).raised}

\* C19: Batch analysis drops invalid items individually: for a batch of n
\* payloads, 1 <= n <= 100, of which k fail task-field validation, the
\* response is 200 with original_count = n and todo_count = n - k (also when
\* k = n, and also when the LLM call fails, the analysis then being the
\* fallback text); a batch of 0 or of more than 100 payloads is rejected with
\* 422 and no LLM call is made.
C19_BatchDropsInvalidItems ==
    batch_resp.out.code # 0 =>
        LET n == Len(batch_resp.todos)
        IN IF n = 0 \/ n > 100
           THEN batch_resp.out.code = 422 /\ ~batch_resp.out.llm_called
           ELSE /\ batch_resp.out.code = 200
                /\ batch_resp.out.body.original_count = n
                /\ batch_resp.out.body.todo_count = n - Cardinality(InvalidItems)
                /\ batch_resp.llm = "raises" =>
                     batch_resp.out.body.analysis = "Unable to analyze todos at this time."

-----------------------------------------------------------------------------
(* Claims about sanitize_string, checked under SpecSanitize *)

\* the sanitizer's last output
Output == Val(sanitized.out)

\* position i of the output starts one of the five entities of html.escape
EntityAt(i) ==
    \E c \in {"&", "<", ">", "\"", "'"} :
        /\ i + Len(EscapeChar(c)) - 1 <= Len(Output)
        /\ SubSeq(Output, i, i + Len(EscapeChar(c)) - 1) = EscapeChar(c)

\* C20: Sanitization removes dangerous patterns: for every input string the
\* output of sanitize_string holds no script tag, no `javascript:` substring
\* and no inline event-handler attribute on<word>=, in any letter case, and
\* no unescaped <, >, & or quote character.
C20_OutputClean ==
    sanitized.out # None =>
        \A i \in DOMAIN Output :
            /\ ~LitAt(Output, i, ScriptOpen)
            /\ ~LitAt(Output, i, JavascriptColon)
            /\ OnHandlerMatchLen(Output, i) = 0
            /\ Output[i] \notin {"<", ">", "\"", "'"}
            /\ Output[i] = "&" => EntityAt(i)

-----------------------------------------------------------------------------
(* Claims about DELETE /todos/{id}, checked under SpecTodo *)

\* task id was created and is neither in the store nor in the cache
Gone(id) == id < nextId /\ todos[id] = None /\ redis_cache[id] = None

Deleted204 == (resp.op = "DELETE" /\ resp.code = 204) => Gone(resp.id)

\* a request on a task that is gone is answered 404 and the task stays gone;
\* a DELETE of a stored task removes it; a DELETE of an id that is not stored
\* is answered 404 and changes neither the store nor the cache
AfterDelete ==
    nreq' = nreq + 1 =>
        /\ \A id \in TodoIds : Gone(id) =>
             /\ todos'[id] = None /\ redis_cache'[id] = None
             /\ (resp'.id = id /\ resp'.op \in {"PUT", "PATCH", "DELETE"}
                 /\ resp'.code # 422) => resp'.code = 404
             /\ (resp'.id = id /\ resp'.op = "GET") => resp'.code \in {404, 500}
        /\ resp'.op = "DELETE" =>
             IF todos[resp'.id] = None
             THEN resp'.code = 404 /\ todos' = todos /\ redis_cache' = redis_cache
             ELSE resp'.code \in {204, 500} /\ todos'[resp'.id] = None

\* C21: Delete removes record and cache: DELETE /todos/{id} of an existing
\* task returns 204, after which GET, PUT, PATCH-status and a second DELETE of
\* that id all return 404 and no cache entry todo:{id} exists; DELETE of an
\* unknown id returns 404 and changes neither the store nor the cache.
C21_DeleteRemoves == []Deleted204 /\ [][AfterDelete]_vars

\* task 1 was created and deleted, and a second DELETE of it was answered 404
C21_Witness ==
    /\ resp.op = "DELETE" /\ resp.code = 404 /\ resp.id = 1 /\ nreq = 3
    /\ Gone(1)

-----------------------------------------------------------------------------
(* Claims about the response headers, checked under SpecRate *)

\* C22: every response of both services, the 429 rejections included,
\* carries the five security headers and the X-Correlation-ID header.
C22_EveryResponseHasHeaders ==
    rl.code # 0 => ResponseHeaders \subseteq rl.headers

\* the responses of requests that were passed on do carry the six headers
C22_PassedOnHasHeaders ==
    rl.code = 200 => rl.headers = ResponseHeaders

-----------------------------------------------------------------------------
(* Claims about the single-suggestion routes, checked under SpecSuggest *)

\* C23: the todo_data handed to an agent by /ai/recommend-priority,
\* /ai/categorize or /ai/estimate-time is the payload as validate_todo_data
\* returns it: title and description sanitized, category in the allow-list,
\* estimated_time in 0..1440; a payload that validate_todo_data rejects
\* reaches no agent.
C23_ValidatedBeforeAgent ==
    suggest_resp.path # "none" =>
        LET checked == validate_todo_data(suggest_resp.todo)
        IN IF checked.raised THEN suggest_resp.todo_data = None
           ELSE suggest_resp.todo_data = Some(checked.value)

\* /ai/recommend-priority on its own does validate before the agent is called
C23_RecommendValidates ==
    suggest_resp.path = "/ai/recommend-priority" => C23_ValidatedBeforeAgent

-----------------------------------------------------------------------------
(* Claims about the frame of the updates, checked under SpecTodo *)

\* the rows of the other tasks are as they were
OthersUnchanged(id) == \A j \in TodoIds \ {id} : todos'[j] = todos[j]

\* the request handled by this step left field f of row `id` as it was
FieldKept(id, f) == Val(todos'[id])[f] = Val(todos[id])[f]

PutFrame ==
    (nreq' = nreq + 1 /\ resp'.op = "PUT") =>
        LET id == resp'.id
            b == resp'.req
        IN /\ OthersUnchanged(id)
           /\ (todos[id] = None) = (todos'[id] = None)
           /\ todos[id] # None =>
                 \A f \in DOMAIN Val(todos[id]) :
                    IF f \notin DOMAIN b \/ resp'.code \in {404, 422}
                    THEN FieldKept(id, f)
                    ELSE resp'.code = 200 => Val(todos'[id])[f] = SanitizedUpdate(b)[f]

PatchFrame ==
    (nreq' = nreq + 1 /\ resp'.op = "PATCH") =>
        LET id == resp'.id
        IN /\ OthersUnchanged(id)
           /\ (todos[id] = None) = (todos'[id] = None)
           /\ todos[id] # None =>
                 \A f \in DOMAIN Val(todos[id]) :
                    IF f # "status" \/ resp'.code \in {404, 422}
                    THEN FieldKept(id, f)
                    ELSE resp'.code = 200 => Val(todos'[id]).status = Val(resp'.req)

\* C24: PUT /todos/{id} changes the supplied fields of that task and leaves
\* its other fields (id, status and ai_metadata among them) as they were;
\* PATCH /todos/{id}/status changes its status only; neither changes the
\* record of another task.
C24_UpdateFrame == [][PutFrame /\ PatchFrame]_vars

\* a PUT of title and description answered 200 on a task that keeps the
\* priority 5 it was created with
C24_Witness ==
    /\ resp.op = "PUT" /\ resp.code = 200 /\ DOMAIN resp.req = {"title", "description"}
    /\ todos[resp.id] # None
    /\ Val(todos[resp.id]).priority = Some(5)
    /\ Val(todos[resp.id]).title = SanitizedUpdate(resp.req).title

-----------------------------------------------------------------------------
(* Claims about GET /todos/stats/summary, checked under SpecStats *)

\* C25: total is the number of stored tasks, the counts of TODO, DOING and
\* DONE add up to total, and completion_rate is DONE / total * 100 rounded
\* to two decimals: 0 when total is 0, and always in 0..100.
C25_Statistics ==
    stats_resp.code = 200 =>
        LET total == stats_resp.total
            done == stats_resp.by_status["DONE"]
            rate == stats_resp.completion_rate
            diff == rate * total - done * 10000
        IN /\ total = Len(list_db)
           /\ \A s \in TodoStatus :
                 stats_resp.by_status[s] = Cardinality({i \in DOMAIN list_db : list_db[i].status = s})
           /\ stats_resp.by_status["TODO"] + stats_resp.by_status["DOING"] + done = total
           /\ rate >= 0 /\ rate <= 10000
           /\ total = 0 => rate = 0
           /\ total > 0 => (2 * diff <= total /\ -2 * diff <= total)

\* two of three tasks are DONE: the rate is 66.67
C25_Witness ==
    /\ stats_resp.code = 200 /\ stats_resp.total = 3
    /\ stats_resp.by_status["DONE"] = 2 /\ stats_resp.completion_rate = 6667

-----------------------------------------------------------------------------
(* Claims about the cache of single tasks over time, checked under SpecClock *)

RequestStep(op) == nreq' = nreq + 1 /\ resp'.op = op

\* the key todo:{id} holds the snapshot of the row and expires CacheTtl
\* seconds after the request that wrote it
SnapshotWritten(id) ==
    /\ redis_cache'[id] = Some(to_dict(Val(todos'[id])))
    /\ expire_at'[id] = clock + CacheTtl

\* a create answered 201 leaves the snapshot of the new task in the cache
CreateCaches == (RequestStep("POST") /\ resp'.code = 201) => SnapshotWritten(resp'.id)

\* a create answered 201 leaves the snapshot in the cache, or no key at all
CreateCachesOrNot ==
    (RequestStep("POST") /\ resp'.code = 201) =>
        (SnapshotWritten(resp'.id) \/ redis_cache'[resp'.id] = None)

\* reads and the passing of time, short of the expiry, leave a key alone
KeptUntilMutation ==
    \A id \in TodoIds :
        (/\ redis_cache[id] # None /\ expire_at[id] > clock'
         /\ (RequestStep("GET") \/ nreq' = nreq)) =>
            (redis_cache'[id] = redis_cache[id] /\ expire_at'[id] = expire_at[id])

\* a GET of a task whose key has not expired is answered from the key
ServedFromCache ==
    (RequestStep("GET") /\ redis_cache[resp'.id] # None /\ expire_at[resp'.id] > clock) =>
        (resp'.code = 200 /\ resp'.body = redis_cache[resp'.id] /\ ~store_read')

\* the same, or the answer is 500 and the table was not read either
ServedFromCacheOr500 ==
    (RequestStep("GET") /\ redis_cache[resp'.id] # None /\ expire_at[resp'.id] > clock) =>
        /\ ~store_read'
        /\ resp'.code \in {200, 500}
        /\ resp'.code = 200 => resp'.body = redis_cache[resp'.id]

-----------------------------------------------------------------------------
(* Claims about ai_metadata, checked under SpecPipeline *)

\* the ai_metadata of the workflow state: each suggestion's confidence, 0 for
\* a suggestion that is missing or has none
MetadataOf(state) ==
    [priority_confidence |-> Confidence(state, "priority_recommendation"),
     category_confidence |-> Confidence(state, "category_classification"),
     time_confidence |-> Confidence(state, "time_estimation"),
     processed |-> TRUE]

HasMetadata ==
    /\ "ai_metadata" \in DOMAIN wf["final_todo"]
    /\ wf["final_todo"]["ai_metadata"] = MetadataOf(wf)

\* C27: whatever the suggestions are, once aggregate has run the final task
\* of the pipeline holds ai_metadata = {priority_confidence,
\* category_confidence, time_confidence, processed: true}, each confidence
\* being the suggestion's or 0.
C27_MetadataAlwaysAttached == wf_next = {"END"} => HasMetadata

\* the final tasks that aggregate does produce hold ai_metadata
C27_AttachedWhenProduced ==
    ("final_todo" \in DOMAIN wf /\ DOMAIN wf["final_todo"] # {}) => HasMetadata

\* the outcome of GET /todos/{id}, from the cache and the table before it
GetOutcome ==
    RequestStep("GET") =>
        LET id == resp'.id
        IN /\ todos' = todos /\ redis_tags' = redis_tags
           /\ \A j \in TodoIds \ {id} : redis_cache'[j] = LiveRedis.cache[j]
           /\ IF LiveRedis.cache[id] # None
              THEN /\ ServedFromCacheOr500
                   /\ redis_cache'[id] = redis_cache[id] /\ expire_at'[id] = expire_at[id]
              ELSE \/ resp'.code = 500 /\ redis_cache'[id] = None
                   \/ /\ store_read'
                      /\ IF todos[id] = None
                         THEN resp'.code = 404 /\ redis_cache'[id] = None
                         ELSE /\ resp'.code = 200 /\ resp'.body = todos[id]
                              /\ SnapshotWritten(id)

\* an expiry is set by the request that writes the key, CacheTtl seconds on,
\* and by nothing else
ExpirySetByWrites ==
    \A id \in TodoIds :
        (expire_at'[id] # expire_at[id] /\ expire_at'[id] # 0) =>
            /\ nreq' = nreq + 1 /\ resp'.id = id /\ resp'.op # "DELETE"
            /\ expire_at'[id] = clock + CacheTtl
            /\ redis_cache'[id] # None

\* a key that can be read was written less than CacheTtl seconds ago
ReadableWithinTtl ==
    \A id \in TodoIds :
        LiveRedis.cache[id] # None => (expire_at[id] > clock /\ expire_at[id] - CacheTtl < clock)

\* C28: GET /todos/{id} answers with the cached snapshot when there is one;
\* on a miss it reads the table, and for a task that exists writes the
\* snapshot under todo:{id} with a 300-second expiry and answers 200, for one
\* that does not answers 404 and writes nothing.  No key is readable more
\* than 300 seconds after it was last written.
C28_CacheFirstRead == []ReadableWithinTtl /\ [][GetOutcome /\ ExpirySetByWrites]_vars

\* a GET after the expiry of the key written by the create: it reads the
\* table and writes the key again
C28_Witness ==
    /\ resp.op = "GET" /\ resp.code = 200 /\ store_read
    /\ clock - 1 >= created_at[resp.id] + CacheTtl
    /\ redis_cache[resp.id] # None /\ expire_at[resp.id] = clock - 1 + CacheTtl

-----------------------------------------------------------------------------
(* Claims about the lengths of stored texts, checked under SpecLimits *)

\* the last request was a create or an update whose body the handler passed
\* on to crud.create_todo or crud.update_todo
HandedToStore == resp.op \in {"POST", "PUT"} /\ resp.code \in {200, 201, 500}

\* C29: the title the Todo service hands to the store after sanitization is
\* non-empty and at most 255 characters long, and the sanitized description
\* at most 2000 characters.
C29_StoredWithinLimits ==
    HandedToStore =>
        /\ Len(Val(sanitize_string(resp.req.title, TitleMaxLength))) \in 1..TitleMaxLength
        /\ "description" \in DOMAIN resp.req =>
              Len(Val(sanitize_string(resp.req.description, DescriptionMaxLength)))
                  <= DescriptionMaxLength

\* the rows that are in the table do have a title of 1 to 255 characters
C29_RowsWithinTitleLimit ==
    \A id \in TodoIds :
        todos[id] # None => Len(Val(Val(todos[id]).title)) \in 1..TitleMaxLength

-----------------------------------------------------------------------------
(* Claims about the timestamps, checked under SpecClock *)

\* a PUT or a PATCH of the status that was answered 200
UpdateAnswered200 ==
    (RequestStep("PUT") \/ RequestStep("PATCH")) /\ resp'.code = 200

\* updated_at never goes back and is never before created_at, and created_at
\* stays as it was set by the create
TimestampsInOrder ==
    \A id \in TodoIds :
        (todos[id] # None /\ todos'[id] # None) =>
            /\ created_at'[id] = created_at[id]
            /\ updated_at'[id] >= updated_at[id]
            /\ updated_at'[id] >= created_at'[id]

\* C30: after each successful PUT or PATCH-status of a task its updated_at
\* is later than it was before, and not earlier than created_at; created_at
\* never changes after the creation.
C30_UpdatedAtRefreshed ==
    [][/\ TimestampsInOrder
       /\ UpdateAnswered200 => updated_at'[resp'.id] > updated_at[resp'.id]]_vars

\* updated_at is later than before after every update that changes the row
C30_RefreshedWhenChanged ==
    [][/\ TimestampsInOrder
       /\ (UpdateAnswered200 /\ todos'[resp'.id] # todos[resp'.id]) =>
             updated_at'[resp'.id] > updated_at[resp'.id]]_vars

-----------------------------------------------------------------------------
(* Claims about the database sessions, checked under SpecSession *)

\* the sessions that hold a connection
Holding == {r \in DbRequests : sessions[r].conn}

\* C31: every request that took a database session gives it back on every
\* exit path of its handler (a return, or an HTTPException of 404, 422 or
\* 500): the pool's count of connections checked out is the number of
\* requests between their handler and the end of get_db, and is 0 when
\* every request has finished.
C31_SessionsReleased ==
    /\ checked_out = Cardinality(Holding)
    /\ \A r \in DbRequests : sessions[r].conn => sessions[r].pc \in {"return", "raise"}
    /\ (\A r \in DbRequests : sessions[r].pc \in {"none", "closed"}) => checked_out = 0

\* every request has finished, one of them after an exception of its
\* handler that came after a statement, and no connection is checked out
C31_Witness ==
    /\ \A r \in DbRequests : sessions[r].pc = "closed"
    /\ \E r \in DbRequests : sessions[r].code = 404
    /\ \E r \in DbRequests : sessions[r].code = 500
    /\ \E r \in DbRequests : sessions[r].code \in {200, 201}
    /\ checked_out = 0

-----------------------------------------------------------------------------
(* Claims about the sort key of the listing, checked under SpecList *)

\* the last listing was asked with valid parameters and a sort_by that is
\* none of `names`
SortedByOther(names) ==
    /\ list_resp.code # 0
    /\ ListQueryOk(list_resp.query)
    /\ list_resp.query.sort_by \notin names

\* the last listing was answered 200 with the page in the order of creation
PageByCreation ==
    /\ list_resp.code = 200
    /\ \E s \in order_by(list_db, Matching, "created_at", list_resp.query.order) :
          \A k \in DOMAIN list_resp.items :
              list_resp.items[k] = s[Skip(list_resp.query) + k]

\* C32: GET /todos with a sort_by that is not a column of the task entity,
\* names of other attributes of the entity class included, is answered with
\* the page ordered by creation time and does not fail.
C32_SortFallback == SortedByOther(TodoColumns) => PageByCreation

\* the fallback for the names that are no attribute of the class at all
C32_UnknownNameFallsBack ==
    SortedByOther(TodoColumns \cup TodoNonColumns) => PageByCreation

-----------------------------------------------------------------------------
(* Claims about the limiter's counter, checked under SpecAgent *)

\* the calls of the gated agents that have taken a slot and not given it back
SlotsHeld == Copies({c \in InFlight : c.agent \in GatedAgents})

\* the counter is within its range and counts the calls that hold a slot
CounterCountsHolders ==
    /\ _concurrent_requests >= 0
    /\ _concurrent_requests <= MAX_CONCURRENT_REQUESTS
    /\ _concurrent_requests = SlotsHeld

\* a step in which a gated call takes a slot adds one to the counter, and a
\* step in which a gated call ends, by a return, by the fallback for content
\* that is not JSON or by the fallback for any other exception, takes one off
OneReleasePerAcquire ==
    /\ (\E c \in BagToSet(coroutines') :
           /\ c.agent \in GatedAgents /\ c.at = "llm"
           /\ CopiesIn(c, coroutines') > CopiesIn(c, coroutines))
          => _concurrent_requests' = _concurrent_requests + 1
    /\ (\E c \in BagToSet(coroutines) :
           /\ c.agent \in GatedAgents /\ c.at = "llm"
           /\ CopiesIn(c, coroutines') < CopiesIn(c, coroutines))
          => _concurrent_requests' = _concurrent_requests - 1

\* C33: the in-flight counter is always between 0 and 10 and equals the
\* number of gated agent calls that have acquired a slot and not yet
\* released it; each acquire is followed by exactly one release on every
\* exit path of the call, so the counter is 0 when no gated call is under way.
C33_CounterIntegrity == []CounterCountsHolders /\ [][OneReleasePerAcquire]_vars

\* a call has ended on an LLM call that raised, its slot was given back, and
\* ten calls hold the ten slots now
C33_Witness ==
    /\ ret.agent \in GatedAgents /\ ret.response.kind = "raises"
    /\ _concurrent_requests = MAX_CONCURRENT_REQUESTS
    /\ SlotsHeld = MAX_CONCURRENT_REQUESTS

-----------------------------------------------------------------------------
(* Claims about the wait for a slot, checked under SpecSlots *)

\* the call of parse waits in acquire_request_slot / has taken its slot
ParseWaits == BagIn(Coroutine("parse", 0, "wait"), coroutines)
ParseHolds == BagIn(Coroutine("parse", 0, "llm"), coroutines)

\* C34: if every LLM call eventually completes, every agent call that waits
\* for a slot eventually acquires one: no deadlock, and no waiter is starved
\* forever by later arrivals, also with more than 10 calls at a time.
C34_WaiterAcquires == ParseWaits ~> ParseHolds

\* slots come free again and again, and a waiting call whose polls do not
\* all miss the moments at which a slot is free acquires one
C34_AcquiresUnlessOvertaken ==
    /\ []<>(_concurrent_requests < MAX_CONCURRENT_REQUESTS)
    /\ SF_vars(Acquire("parse")) => (ParseWaits ~> ParseHolds)

\* the call of parse waits while ten calls of the other agents hold the slots
C34_Witness ==
    /\ ParseWaits
    /\ _concurrent_requests = MAX_CONCURRENT_REQUESTS
    /\ BagCardinality(coroutines) = MAX_CONCURRENT_REQUESTS + 1

-----------------------------------------------------------------------------
(* Claims about interleaved requests, checked under SpecRace *)

\* the key todo:{id} is absent or holds the snapshot of the stored row
CacheAgrees(id) ==
    \/ redis_cache[id] = None
    \/ todos[id] # None /\ redis_cache[id] = Some(to_dict(Val(todos[id])))

\* the read and the mutation have both been answered
BothFinished == running.reader.pc = "idle" /\ running.writer.pc = "idle"

\* the read was answered after a cache miss and a store read that came
\* before the commit of a mutation of the same task
ReadWasOvertaken ==
    /\ running.reader.pc = "idle"
    /\ "overtaken" \in DOMAIN running.reader
    /\ running.reader.overtaken

\* C35: a GET /todos/{id} that missed the cache and read the store before a
\* concurrent PUT, PATCH-status or DELETE of the same task committed never
\* leaves, after both requests have finished, a cache entry that differs from
\* the committed store state.
C35_NoStaleEntryAfterRace ==
    (BothFinished /\ ReadWasOvertaken) => \A id \in TodoIds : CacheAgrees(id)

\* when no read was overtaken by a commit the cache agrees with the store
\* once the requests have finished
C35_AgreesWhenNotOvertaken ==
    (BothFinished /\ ~ReadWasOvertaken) => \A id \in TodoIds : CacheAgrees(id)

-----------------------------------------------------------------------------
(* Claims about the tag set, checked under SpecTodo *)

\* a create, an update, a status update or a delete that was carried out
MutationStep ==
    /\ nreq' = nreq + 1
    /\ \/ resp'.op = "POST" /\ resp'.code = 201
       \/ resp'.op \in {"PUT", "PATCH"} /\ resp'.code = 200
       \/ resp'.op = "DELETE" /\ resp'.code = 204

\* the step is the one the request takes when none of its Redis commands fails
NoCommandFailed ==
    LET id == resp'.id
        b == resp'.req
        o == CASE resp'.op = "POST" -> create_todo(todos, id, b, Redis, {})
               [] resp'.op = "PUT" -> update_todo(todos, id, b, Redis, {})
               [] resp'.op = "PATCH" -> update_todo_status(todos, id, Val(b), Redis, {})
               [] resp'.op = "DELETE" -> delete_todo(todos, id, Redis, {})
    IN /\ todos' = o.todos /\ resp'.code = o.code
       /\ redis_cache' = o.rc.cache /\ redis_tags' = o.rc.tags

\* the keys of all tagged tasks are deleted, other tasks' keys included, and
\* the tag set holds the key of the task that was written, or nothing after
\* a delete; a key that was not tagged stays as it was
TagScope ==
    /\ \A k \in redis_tags : k # resp'.id => redis_cache'[k] = None
    /\ \A k \in TodoIds \ redis_tags : k # resp'.id => redis_cache'[k] = redis_cache[k]
    /\ redis_tags' = IF resp'.op = "DELETE" THEN {} ELSE {resp'.id}

-----------------------------------------------------------------------------
(* Claims about the rate limiter's lists, checked under SpecRate *)

\* the recorded list of every client holds at most N entries, in the order
\* of their times, each the time of a request that was let through
WindowHoldsAdmitted ==
    \A ip \in ClientIps :
        LET times == request_counts[ip]
        IN /\ Len(times) <= Limit
           /\ \A i \in DOMAIN times : i > 1 => times[i - 1] <= times[i]
           /\ \A i \in DOMAIN times : times[i] \in DOMAIN admitted_log[ip]
           /\ \A u \in DOMAIN admitted_log[ip] : Count(times, u) <= admitted_log[ip][u]

\* a request that is rate limited; it is handled at the time `now`
LimitedRequest == rl' # rl /\ rl'.path # "/health"

\* a rejected request adds nothing to the list; and a request of a client
\* whose oldest recorded request is 60 seconds old or older is let through
RejectedNotRecorded ==
    LimitedRequest =>
        LET times == request_counts[rl'.ip]
        IN /\ rl'.code = 429 =>
                 /\ Len(request_counts'[rl'.ip]) <= Len(times)
                 /\ \A i \in DOMAIN request_counts'[rl'.ip] :
                       \E j \in DOMAIN times : request_counts'[rl'.ip][i] = times[j]
           /\ (times # <<>> /\ now - times[1] >= 60) => rl'.code = 200

\* C37: for every client IP the recorded timestamp list never holds more
\* than N entries and holds only admitted requests; a rejected request is
\* not recorded, so a client that is limited is admitted again as soon as
\* its oldest admitted request is 60 seconds old.
C37_WindowBookkeeping == []WindowHoldsAdmitted /\ [][RejectedNotRecorded]_vars

\* a client that had N requests let through at time 0 is let through again
\* at time 60, and its list holds that one request
C37_Witness ==
    /\ now = 60
    /\ \E ip \in ClientIps :
          /\ 0 \in DOMAIN admitted_log[ip] /\ admitted_log[ip][0] = Limit
          /\ rl.ip = ip /\ rl.code = 200 /\ rl.path = "/work" /\ rl.time = 60
          /\ request_counts[ip] = <<60>>

\* a rate-limited request of one client leaves the lists of the other
\* clients as they were, and its answer is given by the requests of its own
\* client that were let through in the last 60 seconds
OwnWindowOnly ==
    LimitedRequest =>
        /\ \A ip \in ClientIps \ {rl'.ip} :
              /\ request_counts'[ip] = request_counts[ip]
              /\ admitted_log'[ip] = admitted_log[ip]
        /\ rl'.code = IF Admitted(rl'.ip, now) >= Limit THEN 429 ELSE 200
        /\ request_counts'[rl'.ip] =
              check_rate_limit(request_counts[rl'.ip], now).times

\* C38: whether a request from client IP A is admitted or rejected depends
\* only on A's own earlier requests; requests from any other IP never change
\* A's window or A's outcome.
C38_ClientsIsolated == [][OwnWindowOnly]_vars

\* one client has used up its limit and the request of another client is
\* let through
C38_Witness ==
    /\ rl.ip = "b" /\ rl.code = 200 /\ rl.path = "/work"
    /\ Len(request_counts["a"]) = Limit
    /\ Admitted("a", now) = Limit
    /\ request_counts["b"] = <<now>>


(***************************************************************************)
(* Claim about ai_metadata in the Todo service, checked under SpecClock   *)
(***************************************************************************)

\* C39: whatever creates, updates, status updates and deletes were served,
\* every stored task has ai_metadata None: no request of the Todo API sets it,
\* a body that names the key included.
C39_MetadataNeverSet ==
    \A id \in TodoIds : todos[id] # None => Val(todos[id]).ai_metadata = None

\* a create and then an update whose body names ai_metadata were both served
\* with success, and the task is stored
C39_Witness ==
    /\ resp.op = "PUT" /\ resp.code = 200
    /\ "ai_metadata" \in DOMAIN resp.req
    /\ todos[resp.id] # None
    /\ Val(todos[resp.id]).priority = Some(3)
    /\ Val(todos[resp.id]).ai_metadata = None


-----------------------------------------------------------------------------
(* Claim about sanitizing twice, checked under SpecSanitize *)

\* C40: sanitize_string is idempotent: sanitizing the sanitizer's output
\* again, with the same limit, gives that output back.
C40_Idempotent == sanitize_string(sanitized.out, 1000) = sanitized.out

====
